---- MODULE Spec2Model ----
(***************************************************************************)
(* Ontology-guided classification of lemmas into a Data Vault schema.      *)
(*                                                                         *)
(* The module models OntologyMatcher.classify_lemmas (three phases and the *)
(* similarity rescue path), SimilarityCalculator.find_best_match and       *)
(* DataVaultGenerator.generate_schema / validate_schema.                   *)
(*                                                                         *)
(* Conventions                                                             *)
(*   - Python strings are TLA+ strings; characters are strings of length 1.*)
(*   - Similarity and confidence scores are integers in hundredths:        *)
(*     1.0 is 100, 0.95 is 95, the threshold 0.75 is 75.                   *)
(*   - An MD5 digest is modelled by the string that is hashed, wrapped in  *)
(*     "md5(...)" (the hash is taken to be collision free).                *)
(***************************************************************************)
EXTENDS Integers, Sequences, FiniteSets, TLC

VARIABLES
    algorithm,        \* SimilarityCalculator.algorithm
    onto_relations,   \* relation lemmas of the loaded ontology (self.R)
    lemmas,           \* argument of classify_lemmas
    idx,              \* number of lemmas consumed by the Phase 1 loop
    category,         \* result of _classify_lemma for the last lemma
    sub_type,
    sim_reply,        \* what the similarity calculator and the iteration
                      \* of the vocabulary sets give to the pending rescue
    hubs_list,
    satellites_list,  \* Phase 1: (lemma, attr_type) candidates
    plante_hub,
    probleme_hub,
    relation_lemma,
    links_list,
    final_satellites,
    schema,           \* DataVaultSchema returned by generate_schema
    errors,           \* diagnostics returned by validate_schema
    pc,               \* position in the pipeline
    fbm_in,           \* arguments of a direct find_best_match call
    fbm_out,          \* its result
    call,             \* arguments of a direct call of another operation
    ret,              \* its result
    last_schema,      \* app.last_schema
    batch_schemas,    \* app.batch_schemas
    _embedding_cache, \* SimilarityCalculator._embedding_cache
    remote_calls,     \* requests sent to the embedding endpoint since the
                      \* cache was last empty
    attempt           \* extract_lemmas: calls of the vision model so far

vars == << algorithm, onto_relations, lemmas, idx, category, sub_type, sim_reply,
           hubs_list, satellites_list, plante_hub, probleme_hub,
           relation_lemma, links_list, final_satellites, schema, errors, pc,
           fbm_in, fbm_out, call, ret, last_schema, batch_schemas,
           _embedding_cache, remote_calls, attempt >>

\* the variables of the application, of the embedding cache and of
\* extract_lemmas
app_vars ==
    << last_schema, batch_schemas, _embedding_cache, remote_calls, attempt >>

None == "<None>"

(***************************************************************************)
(* Bounds of the model.                                                    *)
(***************************************************************************)
MaxLemmas == 4        \* longest list of exact vocabulary terms
MaxMixedLemmas == 3   \* longest list that may hold unrecognized lemmas
MaxTerms == 3         \* longest term list handed to find_best_match

(***************************************************************************)
(* String functions (str.lower, str.strip, len, _normalize_cached).        *)
(***************************************************************************)
Char(s, i) == SubSeq(s, i, i)

Rest(s) == SubSeq(s, 2, Len(s))

UpperCase == "ABCDEFGHIJKLMNOPQRSTUVWXYZ"
LowerCase == "abcdefghijklmnopqrstuvwxyz"

UpperChars == { Char(UpperCase, i) : i \in 1..26 }

LowerChar(c) ==
    IF c \in UpperChars
    THEN Char(LowerCase, CHOOSE i \in 1..26 : Char(UpperCase, i) = c)
    ELSE c

RECURSIVE lower(_)
lower(s) == IF s = "" THEN "" ELSE LowerChar(Char(s, 1)) \o lower(Rest(s))

IsSpace(c) == c \in {" ", "\t", "\n"}

RECURSIVE lstrip(_)
lstrip(s) == IF s # "" /\ IsSpace(Char(s, 1)) THEN lstrip(Rest(s)) ELSE s

RECURSIVE rstrip(_)
rstrip(s) ==
    IF s # "" /\ IsSpace(Char(s, Len(s)))
    THEN rstrip(SubSeq(s, 1, Len(s) - 1))
    ELSE s

strip(s) == rstrip(lstrip(s))

\* unidecode, on the accented letters of the vocabulary's language
UnidecodeChar(c) ==
    CASE c \in {"à", "â", "ä"} -> "a"
      [] c \in {"é", "è", "ê", "ë"} -> "e"
      [] c \in {"î", "ï"} -> "i"
      [] c \in {"ô", "ö"} -> "o"
      [] c \in {"ù", "û", "ü"} -> "u"
      [] c = "ç" -> "c"
      [] OTHER -> c

RECURSIVE unidecode(_)
unidecode(s) ==
    IF s = "" THEN "" ELSE UnidecodeChar(Char(s, 1)) \o unidecode(Rest(s))

\* s.replace('_', ' ').replace('-', ' ')
RECURSIVE ReplaceSeparators(_)
ReplaceSeparators(s) ==
    IF s = "" THEN ""
    ELSE (IF Char(s, 1) \in {"_", "-"} THEN " " ELSE Char(s, 1))
         \o ReplaceSeparators(Rest(s))

\* ' '.join(s.split()): runs of white space become one space, none at the ends
RECURSIVE CollapseSpaces(_)
CollapseSpaces(s) ==
    IF s = "" THEN ""
    ELSE IF IsSpace(Char(s, 1))
         THEN IF Len(s) > 1 /\ ~IsSpace(Char(s, 2))
              THEN " " \o CollapseSpaces(Rest(s))
              ELSE CollapseSpaces(Rest(s))
         ELSE Char(s, 1) \o CollapseSpaces(Rest(s))

_normalize_cached(s) ==
    strip(CollapseSpaces(strip(ReplaceSeparators(unidecode(lower(s))))))

(***************************************************************************)
(* Controlled vocabulary of OntologyMatcher.                               *)
(***************************************************************************)
PLANTES ==
    { "corn", "onion", "tomato", "mais", "oignon", "tomate" }

MALADIES ==
    { "helminthosporiose", "rouille", "fusariose", "curvulariose",
      "striure", "virose", "alternariose", "mildiou",
      "pourriture_blanche", "bacteriose", "bacterial_wilt", "virus_tylcv",
      "stress_abiotique" }

RAVAGEURS ==
    { "foreur_tige", "chenille_legionnaire", "puceron", "cicadelle",
      "thrips", "mouche_oignon", "chenille", "nematode", "aleurode",
      "acarien", "mineuse", "noctuelle" }

RELATIONS ==
    { "has_disease", "has_infestation", "has_health_status" }

SYMPTOMES ==
    { "chlorose", "necrose", "fletrissement", "tache", "lesion",
      "pourriture", "deformation", "mosaique", "galerie", "perforation",
      "miellat", "striure", "galle", "nanisme", "toile", "morsure" }

ETAT_FOLIAIRE ==
    { "saine", "malade", "fletrie", "seche", "tachetee", "chlorotique",
      "necrotique", "perforee", "enroulee", "turgescente", "cassante",
      "mourante", "morte", "brulee", "decoloree", "rougie", "tordue",
      "froissee", "tombante", "dressee", "aplatie", "ratatinee",
      "dechiree", "striee", "marbree", "poudreuse", "collante",
      "fumagine", "entoilee", "minee", "jeune", "mature", "senescente" }

MORPHOLOGIE_COULEUR ==
    { "vert_fonce", "vert_clair", "vert_jaunatre", "jaune", "brun",
      "vert_bleuatre", "vert_grisatre", "vert", "rouge", "orange", "noir",
      "blanc" }

MORPHOLOGIE_FORME ==
    { "lineaire_lanceolee", "tubulaire_cylindrique",
      "composee_imparipennee", "simple", "composee", "simple_tubulaire",
      "ovale", "lanceolee" }

MORPHOLOGIE_TEXTURE ==
    { "lisse", "rugueuse", "cireuse", "creuse", "pubescente",
      "glanduleuse", "lisse_cireuse", "legerement_rugueuse" }

MORPHOLOGIE_NERVATION ==
    { "nervation_parallele", "nervation_reticulee", "parallele",
      "reticulee" }

\* _build_vocabulary_sets
hub_vocabulary == PLANTES \cup MALADIES \cup RAVAGEURS

satellite_vocabulary ==
    SYMPTOMES \cup ETAT_FOLIAIRE \cup MORPHOLOGIE_COULEUR \cup
    MORPHOLOGIE_FORME \cup MORPHOLOGIE_TEXTURE \cup MORPHOLOGIE_NERVATION

\* 'sub' in s
Contains(s, sub) ==
    \E i \in 1..(Len(s) - Len(sub) + 1) : SubSeq(s, i, i + Len(sub) - 1) = sub

\* _enrich_from_ontology: relation lemmas of the ontology holding 'has_'
link_vocabulary ==
    RELATIONS \cup { l \in onto_relations : l # "" /\ Contains(l, "has_") }

\* satellite_type_map: the loops run in this order, a later one overwrites
satellite_type_map(term) ==
    CASE term \in MORPHOLOGIE_NERVATION -> "nervation"
      [] term \in MORPHOLOGIE_TEXTURE -> "texture"
      [] term \in MORPHOLOGIE_FORME -> "forme"
      [] term \in MORPHOLOGIE_COULEUR -> "couleur"
      [] term \in ETAT_FOLIAIRE -> "etat_foliaire"
      [] term \in SYMPTOMES -> "symptome"
      [] OTHER -> "attribut"

(***************************************************************************)
(* OntologyMatcher._classify_lemma                                         *)
(***************************************************************************)
\* slip: the symptoms are looked up before the diseases
_classify_lemma_symptom_first(lemma) ==
    LET lemma_lower == strip(lower(lemma)) IN
    IF lemma_lower \in PLANTES THEN << "hub", "plante" >>
    ELSE IF lemma_lower \in SYMPTOMES THEN << "satellite", "symptome" >>
    ELSE IF lemma_lower \in MALADIES THEN << "hub", "maladie" >>
    ELSE IF lemma_lower \in RAVAGEURS THEN << "hub", "ravageur" >>
    ELSE IF lemma_lower \in RELATIONS \/ lemma_lower \in link_vocabulary
         THEN << "link", "relation" >>
    ELSE IF lemma_lower \in ETAT_FOLIAIRE
         THEN << "satellite", "etat_foliaire" >>
    ELSE IF lemma_lower \in MORPHOLOGIE_COULEUR
         THEN << "satellite", "couleur" >>
    ELSE IF lemma_lower \in MORPHOLOGIE_FORME THEN << "satellite", "forme" >>
    ELSE IF lemma_lower \in MORPHOLOGIE_TEXTURE
         THEN << "satellite", "texture" >>
    ELSE IF lemma_lower \in MORPHOLOGIE_NERVATION
         THEN << "satellite", "nervation" >>
    ELSE << "unknown", None >>

_classify_lemma(lemma) ==
    LET lemma_lower == strip(lower(lemma)) IN
    IF lemma_lower \in PLANTES THEN << "hub", "plante" >>
    ELSE IF lemma_lower \in MALADIES THEN << "hub", "maladie" >>
    ELSE IF lemma_lower \in RAVAGEURS THEN << "hub", "ravageur" >>
    ELSE IF lemma_lower \in RELATIONS \/ lemma_lower \in link_vocabulary
         THEN << "link", "relation" >>
    ELSE IF lemma_lower \in SYMPTOMES THEN << "satellite", "symptome" >>
    ELSE IF lemma_lower \in ETAT_FOLIAIRE
         THEN << "satellite", "etat_foliaire" >>
    ELSE IF lemma_lower \in MORPHOLOGIE_COULEUR
         THEN << "satellite", "couleur" >>
    ELSE IF lemma_lower \in MORPHOLOGIE_FORME THEN << "satellite", "forme" >>
    ELSE IF lemma_lower \in MORPHOLOGIE_TEXTURE
         THEN << "satellite", "texture" >>
    ELSE IF lemma_lower \in MORPHOLOGIE_NERVATION
         THEN << "satellite", "nervation" >>
    ELSE << "unknown", None >>

(***************************************************************************)
(* SimilarityCalculator                                                    *)
(***************************************************************************)
Algorithms ==
    { "lexical", "semantic", "jaro_winkler", "cosine", "jaro_cosine",
      "hybrid" }

\* strategies whose score needs the remote embedding of both strings
UsesEmbeddings(alg) == alg \notin { "lexical", "jaro_winkler", "cosine", "jaro_cosine" }

\* normal forms of the vocabulary (the lru_cache of _normalize_cached)
NormalForm == [ t \in hub_vocabulary \cup satellite_vocabulary |->
                  _normalize_cached(t) ]

\* calculate_similarity(lemma, term): 1.0 on equal normal forms, otherwise
\* the value of the strategy's formula, given by row (0 outside its domain)
calculate_similarity(lemma_norm, term, row) ==
    IF lemma_norm = NormalForm[term] THEN 100
    ELSE IF term \in DOMAIN row THEN row[term]
    ELSE 0

\* slip: >= in place of >, the last of several equal scores wins
RECURSIVE ScanTerms_last_tie_wins(_, _, _, _, _, _)
ScanTerms_last_tie_wins(sc, terms, threshold, i, best_term, best_score) ==
    IF i > Len(terms) THEN << best_term, best_score >>
    ELSE LET score == sc[terms[i]] IN
         IF score >= best_score /\ score >= threshold /\ score > 0
         THEN ScanTerms_last_tie_wins(sc, terms, threshold, i + 1, terms[i],
                                      score)
         ELSE ScanTerms_last_tie_wins(sc, terms, threshold, i + 1, best_term,
                                      best_score)

\* the for loop of find_best_match from position i on
RECURSIVE ScanTerms(_, _, _, _, _, _)
ScanTerms(sc, terms, threshold, i, best_term, best_score) ==
    IF i > Len(terms) THEN << best_term, best_score >>
    ELSE LET score == sc[terms[i]] IN
         IF score > best_score /\ score >= threshold
         THEN ScanTerms(sc, terms, threshold, i + 1, terms[i], score)
         ELSE ScanTerms(sc, terms, threshold, i + 1, best_term, best_score)

\* find_best_match; sc[t] is calculate_similarity(lemma, t)
find_best_match(sc, ontology_terms, threshold) ==
    IF ontology_terms = << >> THEN << None, 0 >>
    ELSE ScanTerms(sc, ontology_terms, threshold, 1, None, 0)

(***************************************************************************)
(* list(vocabulary): the iteration order of a set is not specified.  The   *)
(* model takes one order and its reverse, so that either of any two terms  *)
(* can come first.                                                         *)
(***************************************************************************)
RECURSIVE SetToSeq(_)
SetToSeq(S) ==
    IF S = {} THEN << >>
    ELSE LET x == CHOOSE x \in S : TRUE IN << x >> \o SetToSeq(S \ {x})

Reverse(seq) == [ i \in 1..Len(seq) |-> seq[Len(seq) + 1 - i] ]

ListOf(S, reversed) == IF reversed THEN Reverse(SetToSeq(S)) ELSE SetToSeq(S)

HubLists == [ reversed \in BOOLEAN |-> ListOf(hub_vocabulary, reversed) ]
SatLists == [ reversed \in BOOLEAN |-> ListOf(satellite_vocabulary, reversed) ]

\* OntologyMatcher._find_best_match
_find_best_match(lemma, vocabulary, vocabulary_list, threshold, row) ==
    IF vocabulary = {} THEN << None, 0 >>
    ELSE LET lemma_norm == _normalize_cached(lower(lemma)) IN
         find_best_match(
             [ t \in vocabulary |-> calculate_similarity(lemma_norm, t, row) ],
             vocabulary_list, threshold)

\* thresholds.get("entities", 0.75), thresholds.get("attributes", 0.65)
theta_c == 75
theta_a == 65

(***************************************************************************)
(* Entity records (models/hub.py, models/link.py, models/satellite.py).    *)
(* load_date is kept for Satellites only: it is part of satellite_key; no  *)
(* modelled operation reads the load_date of a Hub or a Link.              *)
(***************************************************************************)
Md5(key_string) == "md5(" \o key_string \o ")"

Hub(business_key, entity_type, record_source, ontology_uri, confidence_score) ==
    [ business_key |-> business_key,
      entity_type |-> entity_type,
      record_source |-> record_source,
      ontology_uri |-> ontology_uri,
      confidence_score |-> confidence_score,
      hub_key |-> Md5(business_key \o "_" \o entity_type) ]

\* slip: the two endpoints are exchanged
Link_reversed(hub_source_key, hub_target_key, relation_type, record_source, confidence_score) ==
    [ hub_source_key |-> hub_target_key,
      hub_target_key |-> hub_source_key,
      relation_type |-> relation_type,
      record_source |-> record_source,
      confidence_score |-> confidence_score,
      link_key |-> Md5(hub_target_key \o "_" \o relation_type \o "_"
                       \o hub_source_key) ]

Link(hub_source_key, hub_target_key, relation_type, record_source, confidence_score) ==
    [ hub_source_key |-> hub_source_key,
      hub_target_key |-> hub_target_key,
      relation_type |-> relation_type,
      record_source |-> record_source,
      confidence_score |-> confidence_score,
      link_key |-> Md5(hub_source_key \o "_" \o relation_type \o "_"
                       \o hub_target_key) ]

Satellite(hub_key, attribute_name, attribute_value, record_source, confidence_score, load_date) ==
    [ hub_key |-> hub_key,
      attribute_name |-> attribute_name,
      attribute_value |-> attribute_value,
      record_source |-> record_source,
      confidence_score |-> confidence_score,
      load_date |-> load_date,
      satellite_key |-> Md5(hub_key \o "_" \o attribute_name \o "_"
                            \o ToString(load_date)),
      hash_diff |-> Md5(attribute_name \o "_" \o attribute_value \o "_"
                        \o ToString(confidence_score)) ]

image_source == "uploaded_image"

OntologyUri(name) == "http://example.org/ontology#" \o name

(***************************************************************************)
(* OntologyMatcher._classify_unknown_lemma: the new (hubs_list,            *)
(* satellites_list).  row, hub_terms and sat_terms are what the similarity *)
(* calculator and the set iteration gave for this call.                    *)
(***************************************************************************)
\* slip: the rescued Hub gets the confidence of an exact Hub
_classify_unknown_lemma_full_confidence(lemma, hubs, sats, row, hub_terms, sat_terms) ==
    LET best == _find_best_match(lemma, hub_vocabulary, hub_terms, theta_c, row)
        best_hub == best[1]
    IN
    IF best_hub # None
    THEN LET entity_type ==
                 IF best_hub \in PLANTES THEN "plante"
                 ELSE IF best_hub \in MALADIES THEN "maladie"
                 ELSE "ravageur"
         IN << Append(hubs, Hub(lower(lemma), entity_type, image_source,
                               OntologyUri(best_hub), 100)),
               sats >>
    ELSE
    LET bsat == _find_best_match(lemma, satellite_vocabulary, sat_terms,
                                 theta_a, row)
        best_sat == bsat[1]
    IN
    IF best_sat # None
    THEN << hubs, Append(sats, << lemma, satellite_type_map(best_sat) >>) >>
    ELSE IF Len(lemma) > 2
         THEN << hubs, Append(sats, << lemma, "description" >>) >>
         ELSE << hubs, sats >>

_classify_unknown_lemma(lemma, hubs, sats, row, hub_terms, sat_terms) ==
    LET best == _find_best_match(lemma, hub_vocabulary, hub_terms, theta_c, row)
        best_hub == best[1]
        hub_score == best[2]
    IN
    IF best_hub # None
    THEN LET entity_type ==
                 IF best_hub \in PLANTES THEN "plante"
                 ELSE IF best_hub \in MALADIES THEN "maladie"
                 ELSE "ravageur"
         IN << Append(hubs, Hub(lower(lemma), entity_type, image_source,
                               OntologyUri(best_hub), hub_score)),
               sats >>
    ELSE
    LET bsat == _find_best_match(lemma, satellite_vocabulary, sat_terms,
                                 theta_a, row)
        best_sat == bsat[1]
    IN
    IF best_sat # None
    THEN << hubs, Append(sats, << lemma, satellite_type_map(best_sat) >>) >>
    ELSE IF Len(lemma) > 2
         THEN << hubs, Append(sats, << lemma, "description" >>) >>
         ELSE << hubs, sats >>

(***************************************************************************)
(* The similarity calculator and the set iteration are the environment of  *)
(* the matcher.  A reply gives the score of the lemma against the terms of *)
(* SimTerms (every other term scores 0 unless the normal forms are equal)  *)
(* and the order of the vocabulary lists.  At most two terms score above   *)
(* zero; a score is below both thresholds (0), between them (70) or above  *)
(* both (80, 90).                                                          *)
(***************************************************************************)
HubSimTerms == { "corn", "helminthosporiose", "puceron" }
SatSimTerms == { "necrose", "vert_fonce" }
SimTerms == HubSimTerms \cup SatSimTerms

SimScores ==
    [ corn |-> {0, 70, 80}, helminthosporiose |-> {0, 80}, puceron |-> {0, 80},
      necrose |-> {0, 70, 90}, vert_fonce |-> {0, 70} ]

ScoreRows ==
    { r \in [ SimTerms -> {0, 70, 80, 90} ] :
        /\ \A t \in SimTerms : r[t] \in SimScores[t]
        /\ Cardinality({ t \in SimTerms : r[t] # 0 }) <= 2 }

NoReply == [ row |-> [ t \in {} |-> 0 ], reversed |-> FALSE ]

\* the similarity calculator answers the calls of the coming rescue
SimilarityReplies ==
    /\ pc = "phase1"
    /\ idx < Len(lemmas)
    /\ _classify_lemma(lemmas[idx + 1])[1] = "unknown"
    /\ \E row \in ScoreRows, reversed \in BOOLEAN :
          sim_reply' = [ row |-> row, reversed |-> reversed ]
    /\ pc' = "rescue"
    /\ UNCHANGED << algorithm, onto_relations, lemmas, idx, category,
                    sub_type, hubs_list, satellites_list, plante_hub,
                    probleme_hub, relation_lemma, links_list,
                    final_satellites, schema, errors, fbm_in, fbm_out, call, ret, app_vars >>

(***************************************************************************)
(* classify_lemmas, Phase 1: one iteration of the loop over the lemmas.    *)
(***************************************************************************)
\* the lemma is in the controlled vocabulary
Phase1Direct ==
    /\ pc = "phase1"
    /\ idx < Len(lemmas)
    /\ LET lemma == lemmas[idx + 1]
           cl == _classify_lemma(lemma)
       IN
       /\ cl[1] # "unknown"
       /\ category' = cl[1]
       /\ sub_type' = cl[2]
       /\ IF cl[1] = "hub" /\ cl[2] = "plante"
          THEN LET h == Hub(lower(lemma), "plante", image_source,
                            OntologyUri(lemma), 100)
               IN /\ plante_hub' = << h >>
                  /\ hubs_list' = Append(hubs_list, h)
                  /\ UNCHANGED << probleme_hub, relation_lemma, satellites_list >>
          ELSE IF cl[1] = "hub" /\ cl[2] \in { "maladie", "ravageur" }
          THEN LET h == Hub(lower(lemma), cl[2], image_source,
                            OntologyUri(lemma), 100)
               IN /\ probleme_hub' = << h >>
                  /\ hubs_list' = Append(hubs_list, h)
                  /\ UNCHANGED << plante_hub, relation_lemma, satellites_list >>
          ELSE IF cl[1] = "link"
          THEN /\ relation_lemma' = << lower(lemma) >>
               /\ UNCHANGED << plante_hub, probleme_hub, hubs_list,
                               satellites_list >>
          ELSE IF cl[1] = "satellite"
          THEN /\ satellites_list' = Append(satellites_list, << lemma, cl[2] >>)
               /\ UNCHANGED << plante_hub, probleme_hub, hubs_list,
                               relation_lemma >>
          ELSE UNCHANGED << plante_hub, probleme_hub, hubs_list,
                            relation_lemma, satellites_list >>
    /\ idx' = idx + 1
    /\ UNCHANGED << algorithm, onto_relations, lemmas, sim_reply, links_list,
                    final_satellites, schema, errors, pc, fbm_in, fbm_out, call, ret, app_vars >>

\* the lemma is not recognized: similarity rescue
Phase1Rescue ==
    /\ pc = "rescue"
    /\ LET lemma == lemmas[idx + 1]
           cl == _classify_lemma(lemma)
           r == _classify_unknown_lemma(lemma, hubs_list, satellites_list,
                                        sim_reply.row,
                                        HubLists[sim_reply.reversed],
                                        SatLists[sim_reply.reversed])
       IN
       /\ category' = cl[1]
       /\ sub_type' = cl[2]
       /\ hubs_list' = r[1]
       /\ satellites_list' = r[2]
    /\ idx' = idx + 1
    /\ sim_reply' = NoReply
    /\ pc' = "phase1"
    /\ UNCHANGED << algorithm, onto_relations, lemmas, plante_hub,
                    probleme_hub, relation_lemma, links_list,
                    final_satellites, schema, errors, fbm_in, fbm_out, call, ret, app_vars >>

\* the rescue needs embeddings and np.dot gets vectors of different
\* lengths (a failed fetch gives 384 zeros, a successful one the length the
\* endpoint returned): the ValueError leaves classify_lemmas
Phase1RescueRaises ==
    /\ pc = "phase1"
    /\ idx < Len(lemmas)
    /\ _classify_lemma(lemmas[idx + 1])[1] = "unknown"
    /\ UsesEmbeddings(algorithm)
    /\ \E t \in hub_vocabulary \cup satellite_vocabulary :
          _normalize_cached(lower(lemmas[idx + 1])) # NormalForm[t]
    /\ pc' = "raised"
    /\ UNCHANGED << algorithm, onto_relations, lemmas, idx, category,
                    sub_type, sim_reply, hubs_list, satellites_list, plante_hub,
                    probleme_hub, relation_lemma, links_list,
                    final_satellites, schema, errors, fbm_in, fbm_out, call, ret, app_vars >>

(***************************************************************************)
(* classify_lemmas, Phase 2: the Link between the two tracked Hubs.        *)
(***************************************************************************)
\* slip: the type of the problem Hub is looked at before the relation lemma
RelationType_inferred_first(relation, probleme) ==
    IF probleme.entity_type = "maladie" THEN "has_disease"
    ELSE IF probleme.entity_type = "ravageur" THEN "has_infestation"
    ELSE IF relation # << >> /\ relation[1] # "" THEN relation[1]
    ELSE "has_health_status"

\* the relation type of the Link (an absent value is the empty sequence)
RelationType(relation, probleme) ==
    IF relation # << >> /\ relation[1] # ""
    THEN relation[1]
    ELSE IF probleme.entity_type = "maladie" THEN "has_disease"
    ELSE IF probleme.entity_type = "ravageur" THEN "has_infestation"
    ELSE "has_health_status"

Phase2 ==
    /\ pc = "phase1"
    /\ idx = Len(lemmas)
    /\ IF plante_hub # << >> /\ probleme_hub # << >>
       THEN links_list' =
                 Append(links_list,
                        Link(plante_hub[1].hub_key, probleme_hub[1].hub_key,
                             RelationType(relation_lemma, probleme_hub[1]),
                             image_source, 100))
       ELSE UNCHANGED links_list
    /\ pc' = "phase3"
    /\ UNCHANGED << algorithm, onto_relations, lemmas, idx, category,
                    sub_type, sim_reply, hubs_list, satellites_list, plante_hub,
                    probleme_hub, relation_lemma, final_satellites, schema,
                    errors, fbm_in, fbm_out, call, ret, app_vars >>

(***************************************************************************)
(* classify_lemmas, Phase 3: one Satellite per candidate that has a parent.*)
(* dates[i] is datetime.now() when candidate i is reached: the clock never *)
(* goes back and may stand still between two constructions.                *)
(***************************************************************************)
\* slip: the category label is misspelt, no candidate is a symptom
DISEASE_SAT_TYPES_misspelt == { "symptomes" }

DISEASE_SAT_TYPES == { "symptome" }

LoadDates(n) ==
    { d \in [ 1..n -> 0..n ] :
        /\ n > 0 => d[1] = 0
        /\ \A i \in 1..(n - 1) : d[i + 1] \in { d[i], d[i] + 1 } }

\* slip: a candidate is kept when the result has no Hub at all
RECURSIVE BuildSatellites_keeps_orphans(_, _, _, _, _, _)
BuildSatellites_keeps_orphans(cands, i, dates, hubs, plante, probleme) ==
    IF i > Len(cands) THEN << >>
    ELSE LET lemma == cands[i][1]
             attr_type == cands[i][2]
             parent_key ==
                 IF attr_type \in { "symptome" } /\ probleme # << >>
                 THEN probleme[1].hub_key
                 ELSE IF plante # << >> THEN plante[1].hub_key
                 ELSE IF hubs # << >> THEN hubs[1].hub_key
                 ELSE ""
         IN << Satellite(parent_key, attr_type, lower(lemma), image_source,
                         95, dates[i]) >>
            \o BuildSatellites_keeps_orphans(cands, i + 1, dates, hubs,
                                             plante, probleme)

RECURSIVE BuildSatellites(_, _, _, _, _, _)
BuildSatellites(cands, i, dates, hubs, plante, probleme) ==
    IF i > Len(cands) THEN << >>
    ELSE LET lemma == cands[i][1]
             attr_type == cands[i][2]
             rest == BuildSatellites(cands, i + 1, dates, hubs, plante, probleme)
         IN
         IF attr_type \in DISEASE_SAT_TYPES /\ probleme # << >>
         THEN << Satellite(probleme[1].hub_key, attr_type, lower(lemma),
                           image_source, 95, dates[i]) >> \o rest
         ELSE IF plante # << >>
         THEN << Satellite(plante[1].hub_key, attr_type, lower(lemma),
                           image_source, 95, dates[i]) >> \o rest
         ELSE IF hubs # << >>
         THEN << Satellite(hubs[1].hub_key, attr_type, lower(lemma),
                           image_source, 95, dates[i]) >> \o rest
         ELSE rest

Phase3 ==
    /\ pc = "phase3"
    /\ \E dates \in LoadDates(Len(satellites_list)) :
         final_satellites' =
             BuildSatellites(satellites_list, 1, dates, hubs_list,
                             plante_hub, probleme_hub)
    /\ pc' = "classified"
    /\ UNCHANGED << algorithm, onto_relations, lemmas, idx, category,
                    sub_type, sim_reply, hubs_list, satellites_list, plante_hub,
                    probleme_hub, relation_lemma, links_list, schema, errors,
                    fbm_in, fbm_out, call, ret, app_vars >>

(***************************************************************************)
(* DataVaultGenerator.generate_schema (generated_at is not modelled).      *)
(***************************************************************************)
generate_schema(hubs, links, satellites, source_image, lems) ==
    [ hubs |-> hubs,
      links |-> links,
      satellites |-> satellites,
      metadata |-> [ source_image |-> source_image,
                     original_lemmas |-> lems,
                     lemmas_count |-> Len(lems),
                     generator_version |-> "1.0.0" ] ]

GenerateSchema ==
    /\ pc = "classified"
    /\ schema' = << generate_schema(hubs_list, links_list, final_satellites,
                                    image_source, lemmas) >>
    /\ pc' = "generated"
    /\ UNCHANGED << algorithm, onto_relations, lemmas, idx, category,
                    sub_type, sim_reply, hubs_list, satellites_list, plante_hub,
                    probleme_hub, relation_lemma, links_list,
                    final_satellites, errors, fbm_in, fbm_out, call, ret, app_vars >>

(***************************************************************************)
(* DataVaultGenerator.validate_schema and its four checks.  A diagnostic   *)
(* is a record: its level, the check that made it, the record it is about. *)
(***************************************************************************)
Range(seq) == { seq[i] : i \in DOMAIN seq }

Diag(level, check, about) == [ level |-> level, check |-> check, about |-> about ]

RECURSIVE Concat(_)
Concat(seqs) == IF seqs = << >> THEN << >> ELSE Head(seqs) \o Concat(Tail(seqs))

_check_key_uniqueness(sch) ==
    LET hub_keys == [ i \in DOMAIN sch.hubs |-> sch.hubs[i].hub_key ]
        link_keys == [ i \in DOMAIN sch.links |-> sch.links[i].link_key ]
        satellite_keys ==
            [ i \in DOMAIN sch.satellites |-> sch.satellites[i].satellite_key ]
    IN
    (IF Len(hub_keys) # Cardinality(Range(hub_keys))
     THEN << Diag("ERREUR", "hub_key_duplicate", "hubs") >> ELSE << >>)
    \o
    (IF Len(link_keys) # Cardinality(Range(link_keys))
     THEN << Diag("ERREUR", "link_key_duplicate", "links") >> ELSE << >>)
    \o
    (IF Len(satellite_keys) # Cardinality(Range(satellite_keys))
     THEN << Diag("ERREUR", "satellite_key_duplicate", "satellites") >>
     ELSE << >>)

\* slip: only the source of a Link is looked up
_check_referential_integrity_source_only(sch) ==
    LET valid_hub_keys == { sch.hubs[i].hub_key : i \in DOMAIN sch.hubs } IN
    Concat([ i \in DOMAIN sch.links |->
               IF sch.links[i].hub_source_key \notin valid_hub_keys
               THEN << Diag("WARNING", "link_source_invalid",
                            sch.links[i].link_key) >>
               ELSE << >> ])
    \o
    Concat([ i \in DOMAIN sch.satellites |->
               IF sch.satellites[i].hub_key \notin valid_hub_keys
               THEN << Diag("WARNING", "satellite_hub_invalid",
                            sch.satellites[i].satellite_key) >>
               ELSE << >> ])

_check_referential_integrity(sch) ==
    LET valid_hub_keys == { sch.hubs[i].hub_key : i \in DOMAIN sch.hubs } IN
    Concat([ i \in DOMAIN sch.links |->
               (IF sch.links[i].hub_source_key \notin valid_hub_keys
                THEN << Diag("WARNING", "link_source_invalid",
                             sch.links[i].link_key) >>
                ELSE << >>)
               \o
               (IF sch.links[i].hub_target_key \notin valid_hub_keys
                THEN << Diag("WARNING", "link_target_invalid",
                             sch.links[i].link_key) >>
                ELSE << >>) ])
    \o
    Concat([ i \in DOMAIN sch.satellites |->
               IF sch.satellites[i].hub_key \notin valid_hub_keys
               THEN << Diag("WARNING", "satellite_hub_invalid",
                            sch.satellites[i].satellite_key) >>
               ELSE << >> ])

ScoreInvalid(confidence_score) ==
    ~(0 <= confidence_score /\ confidence_score <= 100)

_check_confidence_scores(sch) ==
    Concat([ i \in DOMAIN sch.hubs |->
               IF ScoreInvalid(sch.hubs[i].confidence_score)
               THEN << Diag("WARNING", "hub_score_invalid",
                            sch.hubs[i].business_key) >>
               ELSE << >> ])
    \o
    Concat([ i \in DOMAIN sch.links |->
               IF ScoreInvalid(sch.links[i].confidence_score)
               THEN << Diag("WARNING", "link_score_invalid",
                            sch.links[i].link_key) >>
               ELSE << >> ])
    \o
    Concat([ i \in DOMAIN sch.satellites |->
               IF ScoreInvalid(sch.satellites[i].confidence_score)
               THEN << Diag("WARNING", "satellite_score_invalid",
                            sch.satellites[i].attribute_name) >>
               ELSE << >> ])

\* slip: a Link is accepted with a single Hub
_check_structural_constraints_one_hub(sch) ==
    LET num_hubs == Len(sch.hubs)
        num_links == Len(sch.links)
        pair(i) == << sch.links[i].hub_source_key, sch.links[i].hub_target_key >>
    IN
    (IF num_hubs = 0
     THEN << Diag("WARNING", "no_hub", "hubs") >> ELSE << >>)
    \o
    (IF num_links > 0 /\ num_hubs < 1
     THEN << Diag("WARNING", "link_without_two_hubs", "links") >> ELSE << >>)
    \o
    (IF num_links > 1
        /\ \E i, j \in 1..num_links : i < j /\ pair(i) = pair(j)
     THEN << Diag("WARNING", "duplicate_link_pair", "links") >> ELSE << >>)

_check_structural_constraints(sch) ==
    LET num_hubs == Len(sch.hubs)
        num_links == Len(sch.links)
        pair(i) == << sch.links[i].hub_source_key, sch.links[i].hub_target_key >>
    IN
    (IF num_hubs = 0
     THEN << Diag("WARNING", "no_hub", "hubs") >> ELSE << >>)
    \o
    (IF num_links > 0 /\ num_hubs < 2
     THEN << Diag("WARNING", "link_without_two_hubs", "links") >> ELSE << >>)
    \o
    (IF num_links > 1
        /\ \E i, j \in 1..num_links : i < j /\ pair(i) = pair(j)
     THEN << Diag("WARNING", "duplicate_link_pair", "links") >> ELSE << >>)

validate_schema(sch) ==
    _check_key_uniqueness(sch)
    \o _check_referential_integrity(sch)
    \o _check_confidence_scores(sch)
    \o _check_structural_constraints(sch)

ValidateSchema ==
    /\ pc = "generated"
    /\ errors' = validate_schema(schema[1])
    /\ pc' = "validated"
    /\ UNCHANGED << algorithm, onto_relations, lemmas, idx, category,
                    sub_type, sim_reply, hubs_list, satellites_list, plante_hub,
                    probleme_hub, relation_lemma, links_list,
                    final_satellites, schema, fbm_in, fbm_out, call, ret, app_vars >>

(***************************************************************************)
(* The pipeline of analyze_image from the lemma list on:                   *)
(* classify_lemmas, generate_schema, validate_schema.                      *)
(***************************************************************************)
RECURSIVE SeqsUpTo(_, _)
SeqsUpTo(S, n) ==
    IF n = 0 THEN { << >> }
    ELSE LET shorter == SeqsUpTo(S, n - 1) IN
         shorter \cup { Append(q, x) : q \in shorter, x \in S }

\* exact vocabulary terms: a plant, a disease, a pest, two relations,
\* a symptom, a colour
ExactLemmas ==
    { "corn", "helminthosporiose", "puceron", "has_disease",
      "has_infestation", "necrose", "vert_fonce" }

\* exact terms together with an unrecognized lemma
MixedLemmas ==
    { "corn", "helminthosporiose", "necrose", "vert_fonce", "sain" }

\* every vocabulary term, spelling variants and foreign words, one at a time
SingleLemmas ==
    hub_vocabulary \cup satellite_vocabulary \cup RELATIONS \cup
    { " Corn", "STRIURE ", "Has_Disease", "vert-fonce", "Vert Fonce", "maïs",
      "has_symptom", "affecte", "sain", "xy", "" }

\* the lists the specification names
NamedLists ==
    { << "corn", "has_disease", "helminthosporiose", "necrose", "vert_fonce" >>,
      << "corn", "has_health_status", "sain" >> }

OntologyChoices == { {}, { "has_symptom", "affecte" } }

FbmIdle == [ terms |-> << >>, sc |-> [ t \in {} |-> 0 ], threshold |-> 0 ]

\* nothing analysed, nothing cached, no call of the vision model
InitApp ==
    /\ last_schema = << >>
    /\ batch_schemas = << >>
    /\ _embedding_cache = << >>
    /\ remote_calls = << >>
    /\ attempt = 0

InitLocals ==
    /\ idx = 0
    /\ category = None
    /\ sub_type = None
    /\ sim_reply = NoReply
    /\ hubs_list = << >>
    /\ satellites_list = << >>
    /\ plante_hub = << >>
    /\ probleme_hub = << >>
    /\ relation_lemma = << >>
    /\ links_list = << >>
    /\ final_satellites = << >>
    /\ schema = << >>
    /\ errors = << >>

Init ==
    /\ \/ /\ lemmas \in SeqsUpTo(ExactLemmas, MaxLemmas)
          /\ algorithm = "hybrid"
          /\ onto_relations = {}
       \/ /\ lemmas \in SeqsUpTo(MixedLemmas, MaxMixedLemmas) \cup NamedLists
          /\ algorithm = "hybrid"
          /\ onto_relations = {}
       \/ /\ lemmas \in { << l >> : l \in SingleLemmas }
          /\ algorithm \in Algorithms
          /\ onto_relations \in OntologyChoices
    /\ InitLocals
    /\ pc = "phase1"
    /\ fbm_in = FbmIdle
    /\ fbm_out = << >>
    /\ call = << >>
    /\ ret = << >>
    /\ InitApp

Next ==
    \/ Phase1Direct
    \/ SimilarityReplies
    \/ Phase1Rescue
    \/ Phase1RescueRaises
    \/ Phase2
    \/ Phase3
    \/ GenerateSchema
    \/ ValidateSchema

Spec == Init /\ [][Next]_vars

(***************************************************************************)
(* find_best_match called on its own: any term list, any score of          *)
(* calculate_similarity for each term, any threshold.                      *)
(***************************************************************************)
FbmTerms == { "corn", "mais", "tomate" }
FbmScores == { 0, 50, 80 }
FbmThresholds == { 0, 50, 75 }

FindBestMatch ==
    /\ pc = "fbm"
    /\ fbm_out = << >>
    /\ fbm_out' = << find_best_match(fbm_in.sc, fbm_in.terms, fbm_in.threshold) >>
    /\ UNCHANGED << algorithm, onto_relations, lemmas, idx, category,
                    sub_type, sim_reply, hubs_list, satellites_list, plante_hub,
                    probleme_hub, relation_lemma, links_list,
                    final_satellites, schema, errors, pc, fbm_in, call, ret, app_vars >>

InitFbm ==
    /\ lemmas = << >>
    /\ algorithm = "hybrid"
    /\ onto_relations = {}
    /\ InitLocals
    /\ pc = "fbm"
    /\ fbm_in \in [ terms : SeqsUpTo(FbmTerms, MaxTerms),
                    sc : [ FbmTerms -> FbmScores ],
                    threshold : FbmThresholds ]
    /\ fbm_out = << >>
    /\ call = << >>
    /\ ret = << >>
    /\ InitApp

NextFbm == FindBestMatch

SpecFbm == InitFbm /\ [][NextFbm]_vars

(***************************************************************************)
(* Properties.                                                             *)
(***************************************************************************)
\* classify_lemmas has returned (hubs_list, links_list, final_satellites)
Classified == pc \in { "classified", "generated", "validated" }

ProblemTerms == MALADIES \cup RAVAGEURS

IsAttributeTerm(l) == l \in satellite_vocabulary \ ProblemTerms

Positions(S) == { i \in DOMAIN lemmas : lemmas[i] \in S }

SetMax(S) == CHOOSE x \in S : \A y \in S : y <= x

PlantHubs == { h \in Range(hubs_list) : h.entity_type = "plante" }

ProblemHubs ==
    { h \in Range(hubs_list) : h.entity_type \in { "maladie", "ravageur" } }

\* the list holds exact vocabulary terms only: one plant, one problem, one
\* relation, and attribute terms
C1_Input ==
    /\ \A i \in DOMAIN lemmas :
          lemmas[i] \in hub_vocabulary \cup RELATIONS \cup satellite_vocabulary
    /\ Cardinality(Positions(PLANTES)) = 1
    /\ Cardinality(Positions(ProblemTerms)) = 1
    /\ Cardinality(Positions(RELATIONS)) = 1

\* C1: a list of exact terms with one plant, one problem and one relation
\* gives 2 Hubs (the plant, the problem), 1 Link from the plant's key to the
\* problem's key typed by the relation term, and one Satellite per attribute
\* term: symptoms on the problem Hub, the others on the plant Hub.
C1_ExactListCardinality ==
    (Classified /\ C1_Input) =>
        LET p == lemmas[CHOOSE i \in Positions(PLANTES) : TRUE]
            q == lemmas[CHOOSE i \in Positions(ProblemTerms) : TRUE]
            r == lemmas[CHOOSE i \in Positions(RELATIONS) : TRUE]
            attrs == SelectSeq(lemmas, IsAttributeTerm)
        IN
        /\ Len(hubs_list) = 2
        /\ Len(links_list) = 1
        /\ Len(final_satellites) = Len(attrs)
        /\ \E hp, hq \in Range(hubs_list) :
              /\ hp.business_key = p /\ hp.entity_type = "plante"
              /\ hq.business_key = q
              /\ hq.entity_type = (IF q \in MALADIES THEN "maladie" ELSE "ravageur")
              /\ links_list[1].relation_type = r
              /\ links_list[1].hub_source_key = hp.hub_key
              /\ links_list[1].hub_target_key = hq.hub_key
              /\ hp.hub_key # hq.hub_key
              /\ \A k \in 1..Len(attrs) :
                    /\ k \in DOMAIN final_satellites
                    /\ final_satellites[k].attribute_value = attrs[k]
                    /\ final_satellites[k].hub_key =
                          (IF attrs[k] \in SYMPTOMES THEN hq.hub_key
                           ELSE hp.hub_key)

C1_Witness ==
    /\ pc = "validated"
    /\ lemmas = << "corn", "has_disease", "helminthosporiose", "necrose",
                   "vert_fonce" >>
    /\ Len(hubs_list) = 2
    /\ Len(links_list) = 1
    /\ Len(final_satellites) = 2
    /\ final_satellites[1].hub_key = hubs_list[2].hub_key
    /\ final_satellites[2].hub_key = hubs_list[1].hub_key

\* C2: whenever the returned Hub list holds a plant Hub and a problem Hub,
\* however they were found, the returned Link list holds exactly one Link.
C2_LinkWheneverBothHubs ==
    Classified =>
        ((PlantHubs # {} /\ ProblemHubs # {}) => Len(links_list) = 1)

\* C3: the returned Hub list holds at most one plant Hub and at most one
\* problem Hub; of several problem lemmas the last one is kept.
C3_AtMostOneHubPerRole ==
    Classified =>
        /\ Cardinality({ i \in DOMAIN hubs_list :
                           hubs_list[i].entity_type = "plante" }) <= 1
        /\ Cardinality({ i \in DOMAIN hubs_list :
                           hubs_list[i].entity_type \in { "maladie", "ravageur" } }) <= 1
        /\ Positions(ProblemTerms) # {} =>
              \E h \in ProblemHubs :
                  h.business_key = lemmas[SetMax(Positions(ProblemTerms))]

\* C4: a symptom candidate gets the key of the problem Hub of the result,
\* any other candidate (and a symptom when there is no problem Hub) the key
\* of the plant Hub; without a plant Hub the key of the first Hub; without
\* any Hub no Satellite is made.
C4_SatelliteParent ==
    Classified =>
        IF hubs_list = << >> THEN final_satellites = << >>
        ELSE /\ Len(final_satellites) = Len(satellites_list)
             /\ \A i \in DOMAIN final_satellites :
                   LET key == final_satellites[i].hub_key
                       attr_type == satellites_list[i][2]
                   IN
                   IF attr_type = "symptome" /\ ProblemHubs # {}
                   THEN key \in { h.hub_key : h \in ProblemHubs }
                   ELSE IF PlantHubs # {}
                   THEN key \in { h.hub_key : h \in PlantHubs }
                   ELSE key = hubs_list[1].hub_key

\* C5: classifying corn, has_health_status, sain gives 1 Hub, no Link and
\* 1 Satellite, and validate_schema has nothing to report on the schema.
C5_HealthyPlant ==
    lemmas = << "corn", "has_health_status", "sain" >> =>
        /\ Classified =>
              /\ Len(hubs_list) = 1
              /\ Len(links_list) = 0
              /\ Len(final_satellites) = 1
        /\ pc = "validated" => errors = << >>

\* positions of the lemmas that _classify_lemma takes for a relation
RelationPositions ==
    { i \in DOMAIN lemmas :
        /\ strip(lower(lemmas[i])) \in link_vocabulary
        /\ strip(lower(lemmas[i])) \notin hub_vocabulary }

\* C6: the relation_type of a created Link is the last relation lemma of the
\* input when there is one, whatever the problem Hub; without a relation
\* lemma it is has_disease for a disease and has_infestation for a pest.
C6_RelationType ==
    Classified =>
        \A n \in DOMAIN links_list :
            IF RelationPositions # {}
            THEN links_list[n].relation_type =
                     lower(lemmas[SetMax(RelationPositions)])
            ELSE \A h \in Range(hubs_list) :
                     h.hub_key = links_list[n].hub_target_key =>
                        /\ h.entity_type = "maladie" =>
                              links_list[n].relation_type = "has_disease"
                        /\ h.entity_type = "ravageur" =>
                              links_list[n].relation_type = "has_infestation"

\* two relation lemmas, the last one names the Link to a pest
C6_Witness ==
    /\ Classified
    /\ lemmas = << "has_infestation", "corn", "puceron", "has_disease" >>
    /\ Len(links_list) = 1
    /\ links_list[1].relation_type = "has_disease"

\* the best score of the pending lemma against a vocabulary, from the reply
BestScore(vocabulary) ==
    LET lemma_norm == _normalize_cached(lower(lemmas[idx + 1])) IN
    SetMax({ calculate_similarity(lemma_norm, t, sim_reply.row) :
               t \in vocabulary })

BestTerms(vocabulary) ==
    LET lemma_norm == _normalize_cached(lower(lemmas[idx + 1])) IN
    { t \in vocabulary :
        calculate_similarity(lemma_norm, t, sim_reply.row) = BestScore(vocabulary) }

\* the rescue ladder, as a step from the state that holds the reply
RescueLadder ==
    LET lemma == lemmas[idx + 1] IN
    IF BestScore(hub_vocabulary) >= theta_c
    THEN /\ Len(hubs_list') = Len(hubs_list) + 1
         /\ SubSeq(hubs_list', 1, Len(hubs_list)) = hubs_list
         /\ hubs_list'[Len(hubs_list')].business_key = lower(lemma)
         /\ satellites_list' = satellites_list
    ELSE IF BestScore(satellite_vocabulary) >= theta_a
    THEN /\ hubs_list' = hubs_list
         /\ \E t \in BestTerms(satellite_vocabulary) :
               satellites_list' =
                   Append(satellites_list, << lemma, satellite_type_map(t) >>)
    ELSE IF Len(lemma) > 2
    THEN /\ hubs_list' = hubs_list
         /\ satellites_list' = Append(satellites_list, << lemma, "description" >>)
    ELSE /\ hubs_list' = hubs_list
         /\ satellites_list' = satellites_list

\* C7: an unrecognized lemma never makes classify_lemmas fail and is
\* resolved in this order: a Hub when its best Hub-vocabulary score reaches
\* theta_c, else a Satellite candidate of the matched category when its best
\* Satellite-vocabulary score reaches theta_a, else a 'description'
\* candidate when it is longer than 2 characters, else it is dropped.
C7_RescueNeverFails ==
    [][ /\ pc' # "raised"
        /\ pc = "rescue" => RescueLadder ]_vars

\* the order of the ladder alone, whatever the embedding fetches do
C7_LadderOrder == [][ pc = "rescue" => RescueLadder ]_vars

\* the first set of the sequence that holds the term, 0 when none does
FirstSet(sets, term) ==
    IF \E i \in DOMAIN sets : term \in sets[i]
    THEN CHOOSE i \in DOMAIN sets :
            /\ term \in sets[i]
            /\ \A j \in 1..(i - 1) : term \notin sets[j]
    ELSE 0

CategoryLabels ==
    << << "hub", "plante" >>, << "hub", "maladie" >>, << "hub", "ravageur" >>,
       << "link", "relation" >>, << "satellite", "symptome" >>,
       << "satellite", "etat_foliaire" >>, << "satellite", "couleur" >>,
       << "satellite", "forme" >>, << "satellite", "texture" >>,
       << "satellite", "nervation" >> >>

ExpectedCategory(relation_set) ==
    LET n == FirstSet(<< PLANTES, MALADIES, RAVAGEURS, relation_set, SYMPTOMES,
                         ETAT_FOLIAIRE, MORPHOLOGIE_COULEUR, MORPHOLOGIE_FORME,
                         MORPHOLOGIE_TEXTURE, MORPHOLOGIE_NERVATION >>,
                      strip(lower(lemmas[idx])))
    IN IF n = 0 THEN << "unknown", None >> ELSE CategoryLabels[n]

\* C8 as stated: the lower-cased, stripped lemma is classified by the first
\* of the fixed sets plant, disease, pest, relation, symptom, leaf state,
\* colour, shape, texture, venation that holds it, and is unknown when none
\* does.
C8_FixedSetsOnly ==
    idx >= 1 => << category, sub_type >> = ExpectedCategory(RELATIONS)

\* C8 amended: the same, where the relation set is RELATIONS together with
\* the has_ relation lemmas the loaded ontology added to link_vocabulary.
C8_ClassifyOrder ==
    idx >= 1 => << category, sub_type >> = ExpectedCategory(link_vocabulary)

\* 'striure' is a disease and a symptom: the disease wins
C8_Witness ==
    /\ idx = 1
    /\ lemmas = << "STRIURE " >>
    /\ category = "hub"
    /\ sub_type = "maladie"

\* a Hub of the result that came from the rescue path
IsRescuedHub(h) == strip(h.business_key) \notin hub_vocabulary

ConfidenceChecks ==
    { "hub_score_invalid", "link_score_invalid", "satellite_score_invalid" }

\* C9: exact Hubs and Links have confidence 1.0, a rescued Hub the score of
\* its match, which is at least theta_c, Satellites 0.95; every confidence
\* is in [0,1] and validate_schema makes no confidence diagnostic.
C9_ConfidenceScores ==
    [][ /\ (pc = "rescue" /\ Len(hubs_list') > Len(hubs_list)) =>
              /\ hubs_list'[Len(hubs_list')].confidence_score =
                    BestScore(hub_vocabulary)
              /\ hubs_list'[Len(hubs_list')].confidence_score >= theta_c
        /\ Classified' =>
              /\ \A h \in Range(hubs_list') :
                    /\ ~IsRescuedHub(h) => h.confidence_score = 100
                    /\ IsRescuedHub(h) => h.confidence_score >= theta_c
                    /\ h.confidence_score \in 0..100
              /\ \A l \in Range(links_list') : l.confidence_score = 100
              /\ \A x \in Range(final_satellites') : x.confidence_score = 95
        /\ pc' = "validated" =>
              \A n \in DOMAIN errors' : errors'[n].check \notin ConfidenceChecks
      ]_vars

\* a validated result with a rescued Hub of confidence 0.80
C9_Witness ==
    /\ pc = "validated"
    /\ \E h \in Range(hubs_list) : IsRescuedHub(h) /\ h.confidence_score = 80
    /\ final_satellites # << >>

\* the positions of the terms whose score reaches the threshold
FbmMeeting(positive_only) ==
    { i \in DOMAIN fbm_in.terms :
        /\ fbm_in.sc[fbm_in.terms[i]] >= fbm_in.threshold
        /\ positive_only => fbm_in.sc[fbm_in.terms[i]] > 0 }

FbmExpected(meeting) ==
    IF meeting = {} THEN << None, 0 >>
    ELSE LET top == SetMax({ fbm_in.sc[fbm_in.terms[i]] : i \in meeting })
             first == CHOOSE i \in meeting :
                         /\ fbm_in.sc[fbm_in.terms[i]] = top
                         /\ \A j \in meeting :
                               fbm_in.sc[fbm_in.terms[j]] = top => i <= j
         IN << fbm_in.terms[first], top >>

\* C10 as stated: find_best_match returns the first term of the highest
\* score among those whose score is at least the threshold, with that score,
\* and (None, 0.0) when the list is empty or no term reaches the threshold.
C10_BestAmongMeeting ==
    fbm_out # << >> => fbm_out[1] = FbmExpected(FbmMeeting(FALSE))

\* C10 amended: the same among the terms whose score is at least the
\* threshold and above 0; (None, 0.0) when there is no such term.  A
\* returned term never comes with a score below the threshold.
C10_BestAmongPositiveMeeting ==
    fbm_out # << >> =>
        /\ fbm_out[1] = FbmExpected(FbmMeeting(TRUE))
        /\ fbm_out[1][1] # None => fbm_out[1][2] >= fbm_in.threshold

\* two different terms share the highest score, the first of them is returned
C10_Witness ==
    /\ fbm_out # << >>
    /\ fbm_in.terms = << "tomate", "mais", "corn" >>
    /\ fbm_in.sc["mais"] = 80 /\ fbm_in.sc["corn"] = 80 /\ fbm_in.sc["tomate"] = 50
    /\ fbm_in.threshold = 75
    /\ fbm_out[1] = << "mais", 80 >>

(***************************************************************************)
(* SimilarityCalculator in detail: the embeddings, the two numeric         *)
(* backends and the six strategies.  A calculator sc is a record           *)
(*   algorithm, use_gpu : the constructor arguments                        *)
(*   failing            : the strings whose embedding request fails        *)
(*   model_dim          : the length of the vectors the endpoint returns   *)
(***************************************************************************)
\* a score that stands for the ValueError np.dot raises
ValueError == 999

Raised == [ raised |-> TRUE, scores |-> << >> ]

Returned(scores) == [ raised |-> FALSE, scores |-> scores ]

\* np.zeros(384), the vector of a failed request
FailedDim == 384

ModelDims == { 384, 768 }

SimStrings == { "corn", "Corn", "mais", "" }

\* the direction of the vector the endpoint returns for a text
Direction(text) ==
    IF text = "corn" THEN 1 ELSE IF text = "Corn" THEN 2
    ELSE IF text = "mais" THEN 3 ELSE 4

\* the cosine of two non-zero vectors, from their directions
Cos(d1, d2) ==
    IF d1 = d2 THEN 100
    ELSE IF { d1, d2 } = { 1, 2 } THEN 60
    ELSE IF { d1, d2 } = { 1, 3 } THEN 0 - 100
    ELSE IF { d1, d2 } = { 2, 3 } THEN 0 - 60
    ELSE 20

\* dir 0 is the zero vector
_get_embedding(sc, text) ==
    IF text \in sc.failing
    THEN [ dim |-> FailedDim, dir |-> 0 ]
    ELSE [ dim |-> sc.model_dim, dir |-> Direction(text) ]

\* np.dot comes first and needs vectors of one length
_cosine_similarity(v1, v2) ==
    IF v1.dim # v2.dim THEN ValueError
    ELSE IF v1.dir = 0 \/ v2.dir = 0 THEN 0
    ELSE Cos(v1.dir, v2.dir)

_semantic_similarity(sc, s1, s2) ==
    IF s1 = "" \/ s2 = "" THEN 0
    ELSE LET cos_sim == _cosine_similarity(_get_embedding(sc, s1),
                                           _get_embedding(sc, s2))
         IN IF cos_sim = ValueError THEN ValueError
            ELSE (cos_sim + 100) \div 2

\* jellyfish.jaro_winkler_similarity on the strings of the model: equal
\* strings give 1.0, "corn" and "mais" share no character and give 0.0
jaro_winkler_similarity(s1, s2) == IF s1 = s2 THEN 100 ELSE 0

Min(a, b) == IF a <= b THEN a ELSE b

Max(a, b) == IF a >= b THEN a ELSE b

StartsWith(s, prefix) ==
    Len(prefix) <= Len(s) /\ SubSeq(s, 1, Len(prefix)) = prefix

_lexical_similarity(s1, s2) ==
    IF s1 = "" \/ s2 = "" THEN 0
    ELSE LET jw == jaro_winkler_similarity(s1, s2)
             jw1 == IF /\ Len(s1) >= 3 /\ Len(s2) >= 3
                       /\ \/ StartsWith(s1, SubSeq(s2, 1, 3))
                          \/ StartsWith(s2, SubSeq(s1, 1, 3))
                    THEN Min(100, (jw * 110) \div 100) ELSE jw
         IN IF Contains(s2, s1) \/ Contains(s1, s2)
            THEN Min(100, (jw1 * 115) \div 100) ELSE jw1

_jaro_winkler_similarity(s1, s2) ==
    IF s1 = "" \/ s2 = "" THEN 0 ELSE jaro_winkler_similarity(s1, s2)

\* the bigram vectors of "corn" and "mais" are orthogonal
_cosine_ngram_similarity(s1, s2) ==
    IF s1 = "" \/ s2 = "" THEN 0 ELSE IF s1 = s2 THEN 100 ELSE 0

\* max of two scores, a raised ValueError goes through
MaxScore(a, b) ==
    IF a = ValueError \/ b = ValueError THEN ValueError ELSE Max(a, b)

\* slip: the exact-match test is only made for the lexical strategies
CalculateSimilarityOf_late_exact_match(sc, lemma, ontology_term) ==
    LET lemma_norm == _normalize_cached(lemma)
        term_norm == _normalize_cached(ontology_term)
    IN
    IF sc.algorithm = "semantic"
    THEN _semantic_similarity(sc, lemma, ontology_term)
    ELSE IF lemma_norm = term_norm THEN 100
    ELSE IF sc.algorithm = "lexical"
         THEN _lexical_similarity(lemma_norm, term_norm)
    ELSE IF sc.algorithm = "jaro_winkler"
         THEN _jaro_winkler_similarity(lemma_norm, term_norm)
    ELSE IF sc.algorithm = "cosine"
         THEN _cosine_ngram_similarity(lemma_norm, term_norm)
    ELSE IF sc.algorithm = "jaro_cosine"
         THEN Max(_jaro_winkler_similarity(lemma_norm, term_norm),
                  _cosine_ngram_similarity(lemma_norm, term_norm))
    ELSE MaxScore(_lexical_similarity(lemma_norm, term_norm),
                  _semantic_similarity(sc, lemma, ontology_term))

\* SimilarityCalculator.calculate_similarity
CalculateSimilarityOf(sc, lemma, ontology_term) ==
    LET lemma_norm == _normalize_cached(lemma)
        term_norm == _normalize_cached(ontology_term)
    IN
    IF lemma_norm = term_norm THEN 100
    ELSE IF sc.algorithm = "lexical"
         THEN _lexical_similarity(lemma_norm, term_norm)
    ELSE IF sc.algorithm = "semantic"
         THEN _semantic_similarity(sc, lemma, ontology_term)
    ELSE IF sc.algorithm = "jaro_winkler"
         THEN _jaro_winkler_similarity(lemma_norm, term_norm)
    ELSE IF sc.algorithm = "cosine"
         THEN _cosine_ngram_similarity(lemma_norm, term_norm)
    ELSE IF sc.algorithm = "jaro_cosine"
         THEN Max(_jaro_winkler_similarity(lemma_norm, term_norm),
                  _cosine_ngram_similarity(lemma_norm, term_norm))
    ELSE MaxScore(_lexical_similarity(lemma_norm, term_norm),
                  _semantic_similarity(sc, lemma, ontology_term))

\* the strings calculate_similarity hands to _get_embedding
EmbeddingRequests(sc, lemma, ontology_term) ==
    IF _normalize_cached(lemma) = _normalize_cached(ontology_term) THEN {}
    ELSE IF sc.algorithm \in { "lexical", "jaro_winkler", "cosine",
                               "jaro_cosine" } THEN {}
    ELSE IF lemma = "" \/ ontology_term = "" THEN {}
    ELSE { lemma, ontology_term }

\* the vectorized path: one matrix of the term vectors
_batch_similarity_gpu(sc, lemma, ontology_terms) ==
    LET lemma_emb == _get_embedding(sc, lemma)
        embs == [ i \in DOMAIN ontology_terms |->
                    _get_embedding(sc, ontology_terms[i]) ]
        lemma_norm_str == _normalize_cached(lemma)
        sem_score(i) ==
            IF embs[i].dir = 0 THEN 50
            ELSE (Cos(embs[i].dir, lemma_emb.dir) + 100) \div 2
    IN
    IF lemma_emb.dir = 0 THEN Returned([ t \in Range(ontology_terms) |-> 0 ])
    ELSE IF \E i \in DOMAIN embs : embs[i].dim # lemma_emb.dim
         THEN Raised
    ELSE Returned([ t \in Range(ontology_terms) |->
             LET i == CHOOSE k \in DOMAIN ontology_terms :
                         ontology_terms[k] = t
             IN IF sc.algorithm = "hybrid"
                THEN Max(_lexical_similarity(lemma_norm_str,
                                             _normalize_cached(t)),
                         sem_score(i))
                ELSE sem_score(i) ])

\* the sequential path: one calculate_similarity per term
SequentialSimilarity(sc, lemma, ontology_terms) ==
    LET one == [ t \in Range(ontology_terms) |->
                   CalculateSimilarityOf(sc, lemma, t) ]
    IN IF \E t \in DOMAIN one : one[t] = ValueError THEN Raised
       ELSE Returned(one)

batch_similarity(sc, lemma, ontology_terms) ==
    IF ontology_terms = << >> THEN Returned(<< >>)
    ELSE IF sc.use_gpu /\ sc.algorithm \in { "semantic", "hybrid" }
         THEN _batch_similarity_gpu(sc, lemma, ontology_terms)
    ELSE SequentialSimilarity(sc, lemma, ontology_terms)

SimTermChoices == { "corn", "mais" }

Calculators ==
    [ algorithm : Algorithms, use_gpu : BOOLEAN,
      failing : SUBSET (SimStrings \ { "" }), model_dim : ModelDims ]

BatchSimilarity ==
    /\ pc = "similarity"
    /\ ret = << >>
    /\ ret' = [ op |-> "batch_similarity",
                value |-> batch_similarity(call.sc, call.lemma, call.terms) ]
    /\ UNCHANGED << algorithm, onto_relations, lemmas, idx, category,
                    sub_type, sim_reply, hubs_list, satellites_list, plante_hub,
                    probleme_hub, relation_lemma, links_list,
                    final_satellites, schema, errors, pc, fbm_in, fbm_out,
                    call, app_vars >>

CalculateSimilarity ==
    /\ pc = "similarity"
    /\ ret = << >>
    /\ \E i \in DOMAIN call.terms :
          ret' = [ op |-> "calculate_similarity",
                   term |-> call.terms[i],
                   value |-> CalculateSimilarityOf(call.sc, call.lemma,
                                                   call.terms[i]),
                   requests |-> EmbeddingRequests(call.sc, call.lemma,
                                                  call.terms[i]) ]
    /\ UNCHANGED << algorithm, onto_relations, lemmas, idx, category,
                    sub_type, sim_reply, hubs_list, satellites_list, plante_hub,
                    probleme_hub, relation_lemma, links_list,
                    final_satellites, schema, errors, pc, fbm_in, fbm_out,
                    call, app_vars >>

InitSim ==
    /\ lemmas = << >>
    /\ algorithm = "hybrid"
    /\ onto_relations = {}
    /\ InitLocals
    /\ pc = "similarity"
    /\ fbm_in = FbmIdle
    /\ fbm_out = << >>
    /\ call \in [ sc : Calculators, lemma : SimStrings,
                   terms : SeqsUpTo(SimTermChoices, MaxTerms) ]
    /\ ret = << >>
    /\ InitApp

NextSim == BatchSimilarity \/ CalculateSimilarity

SpecSim == InitSim /\ [][NextSim]_vars

\* what one calculate_similarity per term gives for the call
OneByOne ==
    SequentialSimilarity(call.sc, call.lemma, call.terms)

\* C11: batch_similarity(lemma, terms) maps each term to the score that
\* calculate_similarity(lemma, term) returns, for every strategy and on
\* both backends, pairs of equal normal forms and zero vectors included.
C11_BatchEqualsOneByOne ==
    (ret # << >> /\ ret.op = "batch_similarity" /\ call.terms # << >>) =>
        ret.value = OneByOne

\* the part of C11 that holds: the sequential backend
C11_SequentialBackend ==
    (ret # << >> /\ ret.op = "batch_similarity" /\ call.terms # << >>
       /\ ~(call.sc.use_gpu /\ call.sc.algorithm \in { "semantic", "hybrid" }))
    => ret.value = OneByOne

\* C12: calculate_similarity(a, b) is exactly 1.0 whenever a and b have the
\* same normal form, under every strategy and without any embedding
\* request.
C12_ExactMatchIsOne ==
    (ret # << >> /\ ret.op = "calculate_similarity"
       /\ _normalize_cached(call.lemma) = _normalize_cached(ret.term)) =>
        /\ ret.value = 100
        /\ ret.requests = {}

\* 'Corn' against 'corn' under the semantic strategy, every request failing
C12_Witness ==
    /\ ret # << >>
    /\ ret.op = "calculate_similarity"
    /\ call.lemma = "Corn"
    /\ ret.term = "corn"
    /\ call.sc.algorithm = "semantic"
    /\ call.sc.failing = SimStrings \ { "" }
    /\ ret.value = 100

\* C13: when an embedding request fails while classify_lemmas runs under
\* the semantic or hybrid strategy, the string counts as a zero vector and
\* classify_lemmas returns its result without raising, whatever the length
\* of the vectors the successful requests returned.
C13_FetchFailureNeverRaises == pc # "raised"

(***************************************************************************)
(* OntologyValidator.validate_term and identify_plant, with difflib's      *)
(* SequenceMatcher.ratio and get_close_matches computed on the strings.    *)
(***************************************************************************)
HUBS_plantes == << "corn", "onion", "tomato", "mais", "oignon", "tomate" >>

PLANT_ALIASES ==
    [ alias \in { "mais", "maïs", "oignon", "tomate" } |->
        IF alias \in { "mais", "maïs" } THEN "corn"
        ELSE IF alias = "oignon" THEN "onion" ELSE "tomato" ]

RECURSIVE ReplaceChar(_, _, _)
ReplaceChar(s, old, new) ==
    IF s = "" THEN ""
    ELSE (IF Char(s, 1) = old THEN new ELSE Char(s, 1))
         \o ReplaceChar(Rest(s), old, new)

\* value.lower().replace(" ", "_").replace("-", "_"), then unidecode
NormalizeValue(value) ==
    unidecode(ReplaceChar(ReplaceChar(lower(value), " ", "_"), "-", "_"))

\* SequenceMatcher.find_longest_match on a[alo..ahi] and b[blo..bhi]: the
\* longest common block, the earliest in a, then the earliest in b
LongestMatch(a, b, alo, ahi, blo, bhi) ==
    LET blocks == { m \in (alo..ahi) \X (blo..bhi) \X (1..(ahi - alo + 1)) :
                      /\ m[1] + m[3] - 1 <= ahi
                      /\ m[2] + m[3] - 1 <= bhi
                      /\ SubSeq(a, m[1], m[1] + m[3] - 1) =
                         SubSeq(b, m[2], m[2] + m[3] - 1) }
    IN IF blocks = {} THEN << alo, blo, 0 >>
       ELSE CHOOSE m \in blocks : \A d \in blocks :
              \/ m[3] > d[3]
              \/ m[3] = d[3] /\ m[1] < d[1]
              \/ m[3] = d[3] /\ m[1] = d[1] /\ m[2] <= d[2]

\* the number of characters in the matching blocks
RECURSIVE MatchingChars(_, _, _, _, _, _)
MatchingChars(a, b, alo, ahi, blo, bhi) ==
    IF alo > ahi \/ blo > bhi THEN 0
    ELSE LET m == LongestMatch(a, b, alo, ahi, blo, bhi) IN
         IF m[3] = 0 THEN 0
         ELSE m[3]
              + MatchingChars(a, b, alo, m[1] - 1, blo, m[2] - 1)
              + MatchingChars(a, b, m[1] + m[3], ahi, m[2] + m[3], bhi)

\* SequenceMatcher(a, b).ratio() = 2.0 * M / T, as the pair << 2 * M, T >>
Ratio(a, b) ==
    << 2 * MatchingChars(a, b, 1, Len(a), 1, Len(b)), Len(a) + Len(b) >>

\* r >= cutoff, the cutoff in hundredths
RatioAtLeast(r, cutoff) ==
    IF r[2] = 0 THEN 100 >= cutoff ELSE 100 * r[1] >= cutoff * r[2]

RatioLess(r1, r2) ==
    IF r1[2] = 0 \/ r2[2] = 0 THEN FALSE ELSE r1[1] * r2[2] < r2[1] * r1[2]

CharOrder == "_abcdefghijklmnopqrstuvwxyz"

CharRank(c) ==
    IF \E i \in 1..Len(CharOrder) : Char(CharOrder, i) = c
    THEN CHOOSE i \in 1..Len(CharOrder) : Char(CharOrder, i) = c
    ELSE 0

\* s1 < s2 as Python compares strings
RECURSIVE StrLess(_, _)
StrLess(s1, s2) ==
    IF s2 = "" THEN FALSE
    ELSE IF s1 = "" THEN TRUE
    ELSE IF Char(s1, 1) = Char(s2, 1) THEN StrLess(Rest(s1), Rest(s2))
    ELSE CharRank(Char(s1, 1)) < CharRank(Char(s2, 1))

\* difflib.get_close_matches(word, possibilities, n=1, cutoff): the
\* greatest (score, x) among the possibilities that reach the cutoff
get_close_matches(word, possibilities, cutoff) ==
    LET close == { x \in Range(possibilities) :
                     RatioAtLeast(Ratio(x, word), cutoff) }
    IN IF close = {} THEN << >>
       ELSE << CHOOSE x \in close : \A y \in close :
                  \/ RatioLess(Ratio(y, word), Ratio(x, word))
                  \/ /\ ~RatioLess(Ratio(x, word), Ratio(y, word))
                     /\ (y = x \/ StrLess(y, x)) >>

\* slip: the fuzzy match is tried before the substring match
validate_term_fuzzy_first(raw_value, valid_terms, cutoff) ==
    IF raw_value = "" THEN None
    ELSE LET value == NormalizeValue(raw_value)
             partial == { i \in DOMAIN valid_terms :
                            \/ Contains(value, valid_terms[i])
                            \/ Contains(valid_terms[i], value) }
             matches == get_close_matches(value, valid_terms, cutoff)
         IN
         IF value \in Range(valid_terms) THEN value
         ELSE IF matches # << >> THEN matches[1]
         ELSE IF partial # {}
              THEN valid_terms[CHOOSE i \in partial : \A j \in partial : i <= j]
         ELSE None

validate_term(raw_value, valid_terms, cutoff) ==
    IF raw_value = "" THEN None
    ELSE LET value == NormalizeValue(raw_value)
             partial == { i \in DOMAIN valid_terms :
                            \/ Contains(value, valid_terms[i])
                            \/ Contains(valid_terms[i], value) }
             matches == get_close_matches(value, valid_terms, cutoff)
         IN
         IF value \in Range(valid_terms) THEN value
         ELSE IF partial # {}
              THEN valid_terms[CHOOSE i \in partial : \A j \in partial : i <= j]
         ELSE IF matches # << >> THEN matches[1]
         ELSE None

\* slip: the alias table is not consulted
identify_plant_without_aliases(lemme) ==
    validate_term(lemme, HUBS_plantes, 60)

identify_plant(lemme) ==
    LET lemme_norm == unidecode(lower(lemme)) IN
    IF lemme_norm \in DOMAIN PLANT_ALIASES THEN PLANT_ALIASES[lemme_norm]
    ELSE validate_term(lemme, HUBS_plantes, 60)

ValidatorValues ==
    { "", "mais", "maïs", "Necrose Severe", "necrose-severe", "necro",
      "necrsoe", "TACHE", "xyz" }

ValidatorTerms == { "necrose", "necrotique", "tache" }

ValidatorCutoffs == { 60, 90 }

ValidateTerm ==
    /\ pc = "validator"
    /\ ret = << >>
    /\ ret' = [ op |-> "validate_term",
                value |-> validate_term(call.value, call.valid_terms,
                                        call.cutoff) ]
    /\ UNCHANGED << algorithm, onto_relations, lemmas, idx, category,
                    sub_type, sim_reply, hubs_list, satellites_list, plante_hub,
                    probleme_hub, relation_lemma, links_list,
                    final_satellites, schema, errors, pc, fbm_in, fbm_out,
                    call, app_vars >>

IdentifyPlant ==
    /\ pc = "validator"
    /\ ret = << >>
    /\ ret' = [ op |-> "identify_plant", value |-> identify_plant(call.value) ]
    /\ UNCHANGED << algorithm, onto_relations, lemmas, idx, category,
                    sub_type, sim_reply, hubs_list, satellites_list, plante_hub,
                    probleme_hub, relation_lemma, links_list,
                    final_satellites, schema, errors, pc, fbm_in, fbm_out,
                    call, app_vars >>

InitValidator ==
    /\ lemmas = << >>
    /\ algorithm = "hybrid"
    /\ onto_relations = {}
    /\ InitLocals
    /\ pc = "validator"
    /\ fbm_in = FbmIdle
    /\ fbm_out = << >>
    /\ call \in [ value : ValidatorValues,
                  valid_terms : SeqsUpTo(ValidatorTerms, MaxTerms)
                                  \cup { HUBS_plantes },
                  cutoff : ValidatorCutoffs ]
    /\ ret = << >>
    /\ InitApp

NextValidator == ValidateTerm \/ IdentifyPlant

SpecValidator == InitValidator /\ [][NextValidator]_vars

\* what the claim gives for a normalized value: itself when it is in the
\* list, else the first entry that holds it or is held by it, else a closest
\* entry that reaches the cutoff, else None
IsValidated(result, value, valid_terms, cutoff) ==
    LET partial == { i \in DOMAIN valid_terms :
                       \/ Contains(value, valid_terms[i])
                       \/ Contains(valid_terms[i], value) }
        close == { x \in Range(valid_terms) :
                     RatioAtLeast(Ratio(x, value), cutoff) }
    IN
    IF value \in Range(valid_terms) THEN result = value
    ELSE IF partial # {}
         THEN /\ result \in Range(valid_terms)
              /\ \E i \in partial :
                    /\ result = valid_terms[i]
                    /\ \A j \in 1..(i - 1) : j \notin partial
    ELSE IF close # {}
         THEN /\ result \in close
              /\ \A y \in close : ~RatioLess(Ratio(result, value), Ratio(y, value))
    ELSE result = None

ValidateTermReturned == ret # << >> /\ ret.op = "validate_term"

\* C14 as stated: for the normalized term, validate_term returns the term
\* when it is in the list, else the first entry in list order that contains
\* it or is contained in it, else the closest fuzzy match at or above the
\* cutoff, else None.
C14_ValidateTermLadder ==
    ValidateTermReturned =>
        IsValidated(ret.value, NormalizeValue(call.value), call.valid_terms,
                    call.cutoff)

\* C14 amended: an empty term gives None; for a non-empty term the ladder of
\* C14 holds, the result is None or an entry of the list, and a substring
\* match is never replaced by a fuzzy match.
C14_ValidateTermLadderNonEmpty ==
    ValidateTermReturned =>
        /\ call.value = "" => ret.value = None
        /\ call.value # "" =>
              IsValidated(ret.value, NormalizeValue(call.value),
                          call.valid_terms, call.cutoff)
        /\ ret.value \in Range(call.valid_terms) \cup { None }

\* 'necro' is held by both entries and closer to the second: the first wins
C14_Witness ==
    /\ ValidateTermReturned
    /\ call.value = "necro"
    /\ call.valid_terms = << "necrotique", "necrose" >>
    /\ call.cutoff = 60
    /\ ret.value = "necrotique"

AliasedPlant == ret # << >> /\ call.value \in { "mais", "maïs" }

\* C15 as stated: validate_term("mais", plants) and
\* validate_term("maïs", plants) both return "corn".
C15_ValidateTermCanonical ==
    (AliasedPlant /\ ret.op = "validate_term"
       /\ call.valid_terms = HUBS_plantes) => ret.value = "corn"

\* C15 amended: identify_plant("mais") and identify_plant("maïs") both
\* return "corn"; validate_term against the plant list returns "mais" for
\* both, an entry of that list.
C15_IdentifyPlantCanonical ==
    /\ (AliasedPlant /\ ret.op = "identify_plant") => ret.value = "corn"
    /\ (AliasedPlant /\ ret.op = "validate_term"
          /\ call.valid_terms = HUBS_plantes) => ret.value = "mais"

C15_Witness ==
    /\ ret # << >>
    /\ ret.op = "identify_plant"
    /\ call.value = "maïs"
    /\ ret.value = "corn"

(***************************************************************************)
(* DataVaultGenerator on lists of any shape: generate_schema,              *)
(* validate_schema and DataVaultSchema.to_dict on Hubs, Links and          *)
(* Satellites that need not come from classify_lemmas.                     *)
(***************************************************************************)
MaxSchemaHubs == 2
MaxSchemaLinks == 2
MaxSchemaSatellites == 2

HubKey(business_key, entity_type) == Md5(business_key \o "_" \o entity_type)

\* the key of a Hub that is in no schema
GhostKey == HubKey("ghost", "plante")

\* the third Hub has the key of the first and a score above 1.0
HubChoices ==
    { Hub("corn", "plante", image_source, OntologyUri("corn"), 100),
      Hub("rouille", "maladie", image_source, OntologyUri("rouille"), 100),
      Hub("corn", "plante", image_source, OntologyUri("mais"), 150) }

LinkChoices ==
    { Link(HubKey("corn", "plante"), HubKey("rouille", "maladie"),
           "has_disease", image_source, 100),
      Link(HubKey("corn", "plante"), HubKey("rouille", "maladie"),
           "has_infestation", image_source, 100),
      Link(HubKey("corn", "plante"), GhostKey, "has_disease", image_source,
           100),
      Link(HubKey("corn", "plante"), HubKey("corn", "plante"),
           "has_health_status", image_source, 100),
      Link(GhostKey, HubKey("rouille", "maladie"), "has_disease",
           image_source, 0 - 10) }

SatelliteChoices ==
    { Satellite(HubKey("corn", "plante"), "symptome", "necrose",
                image_source, 95, 0),
      Satellite(GhostKey, "couleur", "jaune", image_source, 95, 0),
      Satellite(HubKey("rouille", "maladie"), "symptome", "necrose",
                image_source, 120, 0) }

\* round(confidence_score, 4): the scores are hundredths already
HubToDict(h) ==
    [ hub_key |-> h.hub_key, business_key |-> h.business_key,
      entity_type |-> h.entity_type, ontology_uri |-> h.ontology_uri,
      confidence_score |-> h.confidence_score,
      record_source |-> h.record_source ]

LinkToDict(l) ==
    [ link_key |-> l.link_key, hub_source_key |-> l.hub_source_key,
      hub_target_key |-> l.hub_target_key, relation_type |-> l.relation_type,
      confidence_score |-> l.confidence_score,
      record_source |-> l.record_source ]

SatelliteToDict(x) ==
    [ satellite_key |-> x.satellite_key, hub_key |-> x.hub_key,
      attribute_name |-> x.attribute_name,
      attribute_value |-> x.attribute_value,
      confidence_score |-> x.confidence_score, load_date |-> x.load_date,
      record_source |-> x.record_source, hash_diff |-> x.hash_diff ]

to_dict(sch) ==
    [ metadata |-> sch.metadata,
      hubs |-> [ i \in DOMAIN sch.hubs |-> HubToDict(sch.hubs[i]) ],
      links |-> [ i \in DOMAIN sch.links |-> LinkToDict(sch.links[i]) ],
      satellites |-> [ i \in DOMAIN sch.satellites |->
                         SatelliteToDict(sch.satellites[i]) ] ]

ExportSchema ==
    /\ pc \in { "generated", "validated" }
    /\ ret = << >>
    /\ ret' = << to_dict(schema[1]) >>
    /\ UNCHANGED << algorithm, onto_relations, lemmas, idx, category,
                    sub_type, sim_reply, hubs_list, satellites_list, plante_hub,
                    probleme_hub, relation_lemma, links_list,
                    final_satellites, schema, errors, pc, fbm_in, fbm_out,
                    call, app_vars >>

InitSchema ==
    /\ lemmas = << "corn", "rouille" >>
    /\ algorithm = "hybrid"
    /\ onto_relations = {}
    /\ idx = 0
    /\ category = None
    /\ sub_type = None
    /\ sim_reply = NoReply
    /\ hubs_list \in SeqsUpTo(HubChoices, MaxSchemaHubs)
    /\ links_list \in SeqsUpTo(LinkChoices, MaxSchemaLinks)
    /\ final_satellites \in SeqsUpTo(SatelliteChoices, MaxSchemaSatellites)
    /\ satellites_list = << >>
    /\ plante_hub = << >>
    /\ probleme_hub = << >>
    /\ relation_lemma = << >>
    /\ schema = << >>
    /\ errors = << >>
    /\ pc = "classified"
    /\ fbm_in = FbmIdle
    /\ fbm_out = << >>
    /\ call = << >>
    /\ ret = << >>
    /\ InitApp

\* the caller appends a Hub to the list it passed to generate_schema:
\* DataVaultSchema(hubs=hubs, ...) holds that very list, not a copy
CallerAppendsHub ==
    /\ pc = "generated"
    /\ Len(hubs_list) < MaxSchemaHubs
    /\ \E h \in HubChoices :
          /\ hubs_list' = Append(hubs_list, h)
          /\ schema' = << [ schema[1] EXCEPT !.hubs = Append(hubs_list, h) ] >>
    /\ UNCHANGED << algorithm, onto_relations, lemmas, idx, category,
                    sub_type, sim_reply, satellites_list, plante_hub,
                    probleme_hub, relation_lemma, links_list,
                    final_satellites, errors, pc, fbm_in, fbm_out, call,
                    ret, app_vars >>

NextSchema ==
    \/ GenerateSchema
    \/ ValidateSchema
    \/ ExportSchema
    \/ CallerAppendsHub

SpecSchema == InitSchema /\ [][NextSchema]_vars

HubKeysOf(sch) == { sch.hubs[i].hub_key : i \in DOMAIN sch.hubs }

\* the diagnostics of one check, by position in the returned list
DiagsOf(diags, check) == { n \in DOMAIN diags : diags[n].check = check }

DanglingSources(sch) ==
    { i \in DOMAIN sch.links : sch.links[i].hub_source_key \notin HubKeysOf(sch) }

DanglingTargets(sch) ==
    { i \in DOMAIN sch.links : sch.links[i].hub_target_key \notin HubKeysOf(sch) }

DanglingSatellites(sch) ==
    { i \in DOMAIN sch.satellites :
        sch.satellites[i].hub_key \notin HubKeysOf(sch) }

ReferenceChecks ==
    { "link_source_invalid", "link_target_invalid", "satellite_hub_invalid" }

\* C16: validate_schema leaves the schema as it is and returns exactly one
\* WARNING for each Link source key, each Link target key and each
\* Satellite hub_key that is the key of no Hub of the schema, none for a
\* reference that resolves; the schema with the dangling reference was
\* made by generate_schema and to_dict exports it.
C16_ReferentialWarnings ==
    [][ (pc = "generated" /\ pc' = "validated") =>
          /\ schema' = schema
          /\ << hubs_list', links_list', final_satellites' >> =
             << hubs_list, links_list, final_satellites >>
          /\ Cardinality(DiagsOf(errors', "link_source_invalid")) =
             Cardinality(DanglingSources(schema[1]))
          /\ Cardinality(DiagsOf(errors', "link_target_invalid")) =
             Cardinality(DanglingTargets(schema[1]))
          /\ Cardinality(DiagsOf(errors', "satellite_hub_invalid")) =
             Cardinality(DanglingSatellites(schema[1]))
          /\ \A n \in DOMAIN errors' :
                errors'[n].check \in ReferenceChecks =>
                    errors'[n].level = "WARNING"
          /\ to_dict(schema[1]).links =
             [ i \in DOMAIN links_list |-> LinkToDict(links_list[i]) ]
      ]_vars

\* a Link whose target is the key of no Hub: one warning, and the export
C16_Witness ==
    /\ pc = "validated"
    /\ Len(schema[1].hubs) = 2
    /\ DanglingTargets(schema[1]) # {}
    /\ DanglingSources(schema[1]) = {}
    /\ Cardinality(DiagsOf(errors, "link_target_invalid")) = 1
    /\ ret # << >>
    /\ Len(ret[1].links) = Len(schema[1].links)

Distinct(seq) == \A i, j \in DOMAIN seq : i # j => seq[i] # seq[j]

HubKeySeq(sch) == [ i \in DOMAIN sch.hubs |-> sch.hubs[i].hub_key ]

LinkKeySeq(sch) == [ i \in DOMAIN sch.links |-> sch.links[i].link_key ]

SatelliteKeySeq(sch) ==
    [ i \in DOMAIN sch.satellites |-> sch.satellites[i].satellite_key ]

LinkPairSeq(sch) ==
    [ i \in DOMAIN sch.links |->
        << sch.links[i].hub_source_key, sch.links[i].hub_target_key >> ]

AllScores(sch) ==
    { sch.hubs[i].confidence_score : i \in DOMAIN sch.hubs }
    \cup { sch.links[i].confidence_score : i \in DOMAIN sch.links }
    \cup { sch.satellites[i].confidence_score : i \in DOMAIN sch.satellites }

WellFormed(sch) ==
    /\ Distinct(HubKeySeq(sch))
    /\ Distinct(LinkKeySeq(sch))
    /\ Distinct(SatelliteKeySeq(sch))
    /\ DanglingSources(sch) = {}
    /\ DanglingTargets(sch) = {}
    /\ DanglingSatellites(sch) = {}
    /\ \A c \in AllScores(sch) : 0 <= c /\ c <= 100
    /\ Len(sch.hubs) >= 1
    /\ Len(sch.links) > 0 => Len(sch.hubs) >= 2
    /\ Distinct(LinkPairSeq(sch))

OneIfElseNone(condition, diags, check, level) ==
    /\ Cardinality(DiagsOf(diags, check)) = (IF condition THEN 1 ELSE 0)
    /\ \A n \in DiagsOf(diags, check) : diags[n].level = level

C19_ImmutableSnapshot ==
    [][ /\ (pc = "classified" /\ pc' = "generated") =>
              /\ schema'[1].hubs = hubs_list
              /\ schema'[1].links = links_list
              /\ schema'[1].satellites = final_satellites
              /\ schema'[1].metadata.source_image = image_source
              /\ schema'[1].metadata.original_lemmas = lemmas
              /\ schema'[1].metadata.lemmas_count = Len(lemmas)
        /\ pc # "classified" => schema' = schema
      ]_vars

\* the part of C19 that holds: what the schema is when it is returned
C19_AssemblyOnly ==
    [][ (pc = "classified" /\ pc' = "generated") =>
              /\ schema'[1].hubs = hubs_list
              /\ schema'[1].links = links_list
              /\ schema'[1].satellites = final_satellites
              /\ schema'[1].metadata.source_image = image_source
              /\ schema'[1].metadata.original_lemmas = lemmas
              /\ schema'[1].metadata.lemmas_count = Len(lemmas)
      ]_vars

(***************************************************************************)
(* DataVaultGenerator.merge_schemas on a list of schemas.                  *)
(***************************************************************************)
MaxSchemas == 2

\* the Hubs of all the schemas, in the order the two loops meet them
AllHubs(schemas) == Concat([ k \in DOMAIN schemas |-> schemas[k].hubs ])

AllLinks(schemas) == Concat([ k \in DOMAIN schemas |-> schemas[k].links ])

AllSatellites(schemas) ==
    Concat([ k \in DOMAIN schemas |-> schemas[k].satellites ])

\* slip: the Hubs are told apart by their record source
RECURSIVE MergeHubs_by_source(_, _, _)
MergeHubs_by_source(hubs, merged_hubs, seen_hub_keys) ==
    IF hubs = << >> THEN merged_hubs
    ELSE LET hub == Head(hubs) IN
         IF hub.record_source \notin seen_hub_keys
         THEN MergeHubs_by_source(Tail(hubs), Append(merged_hubs, hub),
                                  seen_hub_keys \cup { hub.record_source })
         ELSE MergeHubs_by_source(Tail(hubs), merged_hubs, seen_hub_keys)

\* the loop over the Hubs: merged_hubs and seen_hub_keys
RECURSIVE MergeHubs(_, _, _)
MergeHubs(hubs, merged_hubs, seen_hub_keys) ==
    IF hubs = << >> THEN merged_hubs
    ELSE LET hub == Head(hubs) IN
         IF hub.hub_key \notin seen_hub_keys
         THEN MergeHubs(Tail(hubs), Append(merged_hubs, hub),
                        seen_hub_keys \cup { hub.hub_key })
         ELSE MergeHubs(Tail(hubs), merged_hubs, seen_hub_keys)

RECURSIVE MergeLinks(_, _, _)
MergeLinks(links, merged_links, seen_link_keys) ==
    IF links = << >> THEN merged_links
    ELSE LET link == Head(links) IN
         IF link.link_key \notin seen_link_keys
         THEN MergeLinks(Tail(links), Append(merged_links, link),
                         seen_link_keys \cup { link.link_key })
         ELSE MergeLinks(Tail(links), merged_links, seen_link_keys)

\* slip: the Satellites are deduplicated by key like the Hubs
RECURSIVE MergeSatellites_by_key(_, _, _)
MergeSatellites_by_key(satellites, merged_satellites, seen_satellite_keys) ==
    IF satellites = << >> THEN merged_satellites
    ELSE LET satellite == Head(satellites) IN
         IF satellite.satellite_key \notin seen_satellite_keys
         THEN MergeSatellites_by_key(
                  Tail(satellites), Append(merged_satellites, satellite),
                  seen_satellite_keys \cup { satellite.satellite_key })
         ELSE MergeSatellites_by_key(Tail(satellites), merged_satellites,
                                     seen_satellite_keys)

\* every Satellite is kept, its key is only recorded
RECURSIVE MergeSatellites(_, _, _)
MergeSatellites(satellites, merged_satellites, seen_satellite_keys) ==
    IF satellites = << >> THEN merged_satellites
    ELSE LET satellite == Head(satellites) IN
         MergeSatellites(Tail(satellites),
                         Append(merged_satellites, satellite),
                         seen_satellite_keys \cup { satellite.satellite_key })

merge_schemas(schemas) ==
    [ hubs |-> MergeHubs(AllHubs(schemas), << >>, {}),
      links |-> MergeLinks(AllLinks(schemas), << >>, {}),
      satellites |-> MergeSatellites(AllSatellites(schemas), << >>, {}),
      metadata |-> [ merged_from |-> Len(schemas),
                     source_images |->
                         [ k \in DOMAIN schemas |->
                             schemas[k].metadata.source_image ],
                     generator_version |-> "1.0.0" ] ]

MergeHubLists ==
    LET corn == Hub("corn", "plante", image_source, OntologyUri("corn"), 100)
        rouille == Hub("rouille", "maladie", image_source,
                       OntologyUri("rouille"), 100)
        mais == Hub("corn", "plante", image_source, OntologyUri("mais"), 150)
    IN { << >>, << corn >>, << rouille >>, << mais >>, << corn, rouille >>,
         << rouille, mais >>, << corn, mais >> }

MergeLinkLists ==
    LET disease == Link(HubKey("corn", "plante"), HubKey("rouille", "maladie"),
                        "has_disease", image_source, 100)
        pest == Link(HubKey("corn", "plante"), HubKey("rouille", "maladie"),
                     "has_infestation", image_source, 100)
    IN { << >>, << disease >>, << pest, disease >> }

MergeSatelliteLists ==
    { << >>,
      << Satellite(HubKey("corn", "plante"), "symptome", "necrose",
                   image_source, 95, 0) >> }

MergeInputs ==
    { generate_schema(h, l, x, image_source, << "corn" >>) :
        h \in MergeHubLists, l \in MergeLinkLists, x \in MergeSatelliteLists }

MergeSchemas ==
    /\ pc = "merge"
    /\ ret = << >>
    /\ ret' = << merge_schemas(call) >>
    /\ UNCHANGED << algorithm, onto_relations, lemmas, idx, category,
                    sub_type, sim_reply, hubs_list, satellites_list, plante_hub,
                    probleme_hub, relation_lemma, links_list,
                    final_satellites, schema, errors, pc, fbm_in, fbm_out,
                    call, app_vars >>

InitMerge ==
    /\ lemmas = << >>
    /\ algorithm = "hybrid"
    /\ onto_relations = {}
    /\ InitLocals
    /\ pc = "merge"
    /\ fbm_in = FbmIdle
    /\ fbm_out = << >>
    /\ call \in SeqsUpTo(MergeInputs, MaxSchemas)
    /\ ret = << >>
    /\ InitApp

NextMerge == MergeSchemas

SpecMerge == InitMerge /\ [][NextMerge]_vars

\* the positions of the first occurrence of each key
FirstPositions(keys) ==
    { i \in DOMAIN keys : \A j \in 1..(i - 1) : keys[j] # keys[i] }

\* merged is the records at the first position of each key, in order
IsFirstOccurrences(merged, records, keys) ==
    LET P == FirstPositions(keys) IN
    /\ Len(merged) = Cardinality(P)
    /\ \A n \in DOMAIN merged :
          \E i \in P : /\ Cardinality({ j \in P : j < i }) = n - 1
                       /\ merged[n] = records[i]

\* the sum of the numbers of Satellites of the schemas
RECURSIVE SatelliteCount(_)
SatelliteCount(schemas) ==
    IF schemas = << >> THEN 0
    ELSE Len(Head(schemas).satellites) + SatelliteCount(Tail(schemas))

\* C18: the merged Hubs are the first occurrence of each hub_key in
\* encounter order (two Hubs of one business_key and entity_type give one),
\* the merged Links the first occurrence of each link_key, the merged
\* Satellites all the input Satellites in order; the inputs are unchanged.
C18_MergeDeduplicates ==
    [][ (ret = << >> /\ ret' # << >>) =>
          LET hubs == AllHubs(call)
              links == AllLinks(call)
              m == ret'[1]
          IN
          /\ call' = call
          /\ IsFirstOccurrences(m.hubs, hubs,
                                [ i \in DOMAIN hubs |-> hubs[i].hub_key ])
          /\ \A i, j \in DOMAIN m.hubs :
                ( /\ m.hubs[i].business_key = m.hubs[j].business_key
                  /\ m.hubs[i].entity_type = m.hubs[j].entity_type ) => i = j
          /\ IsFirstOccurrences(m.links, links,
                                [ i \in DOMAIN links |-> links[i].link_key ])
          /\ m.satellites = AllSatellites(call)
          /\ Len(m.satellites) = SatelliteCount(call)
      ]_vars

\* two schemas with the Hub corn/plante and the same Satellite: one Hub,
\* both Satellites
C18_Witness ==
    /\ ret # << >>
    /\ Len(call) = 2
    /\ Len(call[1].hubs) = 1 /\ Len(call[2].hubs) = 1
    /\ call[1].hubs[1].business_key = "corn"
    /\ call[2].hubs[1].business_key = "corn"
    /\ call[1].satellites # << >>
    /\ call[1].satellites = call[2].satellites
    /\ Len(ret[1].hubs) = 1
    /\ Len(ret[1].satellites) = 2

(***************************************************************************)
(* Satellite keys inside one classify_lemmas result.  The key is the hash  *)
(* of hub_key, attribute_name and load_date.timestamp(); load_date is      *)
(* datetime.now() at the construction, and two constructions that follow   *)
(* each other may read the same clock value (LoadDates).                   *)
(***************************************************************************)

\* C20: the Satellites of one classify_lemmas result have pairwise distinct
\* satellite_keys, two observations with the same hub_key and attribute_name
\* created one right after the other included, and validate_schema reports
\* no duplicate Satellite key for the schema generated from that result
C20_DistinctSatelliteKeys ==
    /\ pc \in { "classified", "generated", "validated" } =>
          \A i, j \in DOMAIN final_satellites :
              i # j => final_satellites[i].satellite_key
                           # final_satellites[j].satellite_key
    /\ pc = "validated" =>
          \A k \in DOMAIN errors :
              errors[k] # Diag("ERREUR", "satellite_key_duplicate", "satellites")

(***************************************************************************)
(* OntologyValidator: the Satellite categories in the order of the         *)
(* SATELLITES dictionary, identify_link and classify_satellite.            *)
(***************************************************************************)
SATELLITES ==
    <<
      [ category |-> "etats_sante",
        terms |->
          << "sain", "saine", "malade", "stresse", "infeste",
             "vigoureux" >> ],
      [ category |-> "maladies_corn",
        terms |->
          << "fusariose", "helminthosporiose", "rouille",
             "curvulariose", "striure", "virose",
             "stress_abiotique" >> ],
      [ category |-> "maladies_onion",
        terms |->
          << "alternariose", "mildiou", "pourriture_blanche",
             "fusariose", "bacteriose", "stress_abiotique" >> ],
      [ category |-> "maladies_tomato",
        terms |->
          << "alternariose", "mildiou", "fusariose",
             "bacterial_wilt", "virus_tylcv",
             "fletrissement_bacterien", "stress_abiotique" >> ],
      [ category |-> "ravageurs_corn",
        terms |->
          << "foreur_tige", "chenille_legionnaire", "puceron",
             "cicadelle" >> ],
      [ category |-> "ravageurs_onion",
        terms |->
          << "thrips", "mouche", "chenille", "nematode" >> ],
      [ category |-> "ravageurs_tomato",
        terms |->
          << "aleurode", "acarien", "mineuse", "noctuelle",
             "thrips", "puceron", "nematode" >> ],
      [ category |-> "symptomes",
        terms |->
          << "chlorose", "necrose", "fletrissement", "lesion",
             "tache", "striure", "mosaique", "pourriture",
             "galle", "deformation", "nanisme", "toile",
             "galerie", "miellat", "morsure", "jaunissement",
             "perforation" >> ],
      [ category |-> "etats_feuille_sain",
        terms |->
          << "saine", "turgescente", "dressee", "jeune", "mature" >> ],
      [ category |-> "etats_feuille_malade",
        terms |->
          << "malade", "fletrie", "seche", "cassante", "mourante",
             "morte", "chlorotique", "necrotique", "brulee",
             "decoloree", "rougie", "enroulee", "tordue",
             "froissee", "tombante", "aplatie", "ratatinee",
             "perforee", "dechiree", "tachetee", "striee",
             "marbree", "poudreuse", "collante", "fumagine",
             "entoilee", "minee", "senescente" >> ],
      [ category |-> "etats_feuille",
        terms |->
          << "turgescente", "fletrie", "seche", "cassante",
             "saine", "malade", "mourante", "morte",
             "chlorotique", "necrotique", "brulee", "decoloree",
             "rougie", "enroulee", "tordue", "froissee",
             "tombante", "dressee", "aplatie", "ratatinee",
             "perforee", "dechiree", "tachetee", "striee",
             "marbree", "poudreuse", "collante", "fumagine",
             "entoilee", "minee", "jeune", "mature", "senescente" >> ],
      [ category |-> "couleurs_feuille_sain",
        terms |->
          << "vert_fonce", "vert_clair", "vert_bleuatre",
             "vert_moyen" >> ],
      [ category |-> "couleurs_feuille_malade",
        terms |->
          << "vert_jaunatre", "jaune", "brun", "vert_grisatre" >> ],
      [ category |-> "couleurs_feuille",
        terms |->
          << "vert_fonce", "vert_clair", "jaune", "brun",
             "vert_bleuatre", "vert_grisatre", "vert_jaunatre",
             "vert_moyen" >> ],
      [ category |-> "formes_feuille",
        terms |->
          << "lineaire_lanceolee", "composee_imparipennee",
             "tubulaire_cylindrique", "simple", "composee",
             "simple_tubulaire" >> ],
      [ category |-> "textures",
        terms |->
          << "lisse", "pubescente", "glanduleuse",
             "lisse_cireuse", "creuse", "legerement_rugueuse" >> ],
      [ category |-> "nervation",
        terms |->
          << "nervation_parallele", "nervation_reticulee",
             "parallele", "reticulee" >> ]
    >>

LINKS_relations ==
    << "has_disease", "has_infestation", "has_health_status", "a_maladie",
       "a_infestation", "a_etat_sante" >>

\* the default cutoff of validate_term, in hundredths
DefaultCutoff == 60

\* SATELLITES[name], and SATELLITES.get(name, [])
SatelliteTerms(name) ==
    IF \E k \in DOMAIN SATELLITES : SATELLITES[k].category = name
    THEN SATELLITES[CHOOSE k \in DOMAIN SATELLITES :
                        SATELLITES[k].category = name].terms
    ELSE << >>

identify_link(lemme) == validate_term(lemme, LINKS_relations, DefaultCutoff)

\* the loop of classify_satellite from category k on
RECURSIVE ClassifySatelliteFrom(_, _)
ClassifySatelliteFrom(lemme, k) ==
    IF k > Len(SATELLITES) THEN << None, None >>
    ELSE LET validated == validate_term(lemme, SATELLITES[k].terms,
                                        DefaultCutoff)
         IN IF validated # None
            THEN << validated, SATELLITES[k].category >>
            ELSE ClassifySatelliteFrom(lemme, k + 1)

classify_satellite(lemme, plant_type) == ClassifySatelliteFrom(lemme, 1)

(***************************************************************************)
(* EnhancedLLMExtractor._parse_structured_response.  A dictionary is the   *)
(* sequence of its << key, value >> pairs in insertion order; the result   *)
(* is << >> for None and << analysis >> for a StructuredPlantAnalysis;     *)
(* confidence_score is the fraction << numerator, denominator >>           *)
(* (timestamp is not modelled).                                            *)
(***************************************************************************)
UpperChar(c) ==
    IF \E i \in 1..26 : Char(LowerCase, i) = c
    THEN Char(UpperCase, CHOOSE i \in 1..26 : Char(LowerCase, i) = c)
    ELSE c

RECURSIVE upper(_)
upper(s) == IF s = "" THEN "" ELSE UpperChar(Char(s, 1)) \o upper(Rest(s))

\* s.split(sep) for a separator of one character
RECURSIVE Split(_, _)
Split(s, sep) ==
    IF Contains(s, sep)
    THEN LET at == CHOOSE i \in 1..Len(s) :
                      /\ Char(s, i) = sep
                      /\ \A j \in 1..(i - 1) : Char(s, j) # sep
         IN << SubSeq(s, 1, at - 1) >> \o Split(SubSeq(s, at + 1, Len(s)), sep)
    ELSE << s >>

\* sep.join(parts)
RECURSIVE Join(_, _)
Join(parts, sep) ==
    IF parts = << >> THEN ""
    ELSE IF Len(parts) = 1 THEN parts[1]
    ELSE parts[1] \o sep \o Join(Tail(parts), sep)

DictHas(d, key) == \E i \in DOMAIN d : d[i][1] = key

\* d.get(key, default)
DictGet(d, key, default) ==
    IF DictHas(d, key) THEN d[CHOOSE i \in DOMAIN d : d[i][1] = key][2]
    ELSE default

\* d[key] = value
DictSet(d, key, value) ==
    IF DictHas(d, key)
    THEN [ i \in DOMAIN d |-> IF d[i][1] = key THEN << key, value >> ELSE d[i] ]
    ELSE Append(d, << key, value >>)

InvalidValues == { "aucun", "none", "n/a", "non_applicable", "" }

\* the loop over the lines of the response
RECURSIVE ParseData(_, _)
ParseData(lines, data) ==
    IF lines = << >> THEN data
    ELSE LET line == Head(lines) IN
         IF Contains(line, ":")
         THEN LET parts == Split(line, ":")
                  key == upper(strip(parts[1]))
                  normal == NormalizeValue(strip(Join(Tail(parts), ":")))
                  value == IF normal \in InvalidValues THEN None ELSE normal
              IN ParseData(Tail(lines), DictSet(data, key, value))
         ELSE ParseData(Tail(lines), data)

\* validate_term on a value that may be None
ValidateOptional(value, valid_terms) ==
    IF value = None THEN None
    ELSE validate_term(value, valid_terms, DefaultCutoff)

\* a or b, on optional values
FirstValidated(first, second) == IF first # None THEN first ELSE second

\* validate_term against a first list, then against a second one
ValidateEither(value, first_terms, second_terms) ==
    FirstValidated(ValidateOptional(value, first_terms),
                   ValidateOptional(value, second_terms))

\* lemmes_corriges[raw] = validated, when the validated term differs
Corrected(corriges, raw, validated) ==
    IF validated # None /\ validated # raw
    THEN DictSet(corriges, raw, validated)
    ELSE corriges

\* confidence = validated_terms / max(total_terms, 1)
StructuredConfidence(satellites, data) ==
    << Len(satellites) + 1, Max(Len(data), 1) >>

\* the plant named by the PLANTE line; identify_plant(None) raises, and the
\* handler returns None
StructuredPlant(plante_raw) ==
    IF plante_raw = None THEN None ELSE identify_plant(plante_raw)

\* the validated name of the problem
ValidateName(nom_raw, plante) ==
    IF nom_raw # None THEN classify_satellite(nom_raw, plante)[1] ELSE None

\* the validated state of the leaf, None when no list holds it
EtatFound(est_malade, etat) ==
    IF est_malade
    THEN ValidateEither(etat, SatelliteTerms("etats_feuille_malade"),
                        SatelliteTerms("etats_feuille"))
    ELSE ValidateEither(etat, SatelliteTerms("etats_feuille_sain"),
                        SatelliteTerms("etats_feuille"))

\* the validated colour of the leaf, None when no list holds it
CouleurFound(est_malade, couleur) ==
    IF est_malade
    THEN ValidateEither(couleur, SatelliteTerms("couleurs_feuille_malade"),
                        SatelliteTerms("couleurs_feuille"))
    ELSE ValidateEither(couleur, SatelliteTerms("couleurs_feuille_sain"),
                        SatelliteTerms("couleurs_feuille"))

\* the returned dictionary, from the parsed and the validated values
StructuredRecord(data, plante, est_malade, type_probleme, nom_raw, nom_validated, symptome, symptome_validated, etat, etat_found, couleur, couleur_found) ==
    LET link == IF est_malade
                THEN IF type_probleme = "ravageur" THEN "has_infestation"
                     ELSE "has_disease"
                ELSE "has_health_status"
        sante == IF est_malade
                 THEN IF type_probleme = "ravageur" THEN "infeste" ELSE "malade"
                 ELSE "sain"
        etat_validated ==
            IF etat_found # None THEN etat_found
            ELSE IF est_malade THEN "malade" ELSE "saine"
        couleur_validated ==
            IF couleur_found # None THEN couleur_found
            ELSE IF est_malade THEN "vert_jaunatre" ELSE "vert_fonce"
        symptomes == IF symptome_validated # None
                     THEN << symptome_validated >> ELSE << >>
        satellites ==
            << sante >>
            \o (IF nom_validated # None THEN << nom_validated >> ELSE << >>)
            \o symptomes
            \o << etat_validated, couleur_validated >>
        lemmes_corriges ==
            Corrected(Corrected(Corrected(Corrected(<< >>,
                nom_raw, nom_validated),
                symptome, symptome_validated),
                etat, etat_found),
                couleur, couleur_found)
    IN
    [ plante |-> plante,
      est_malade |-> est_malade,
      hub |-> plante,
      link |-> link,
      satellites |-> satellites,
      type_probleme |-> type_probleme,
      nom_probleme |-> nom_raw,
      symptomes |-> symptomes,
      etat_feuille |-> etat_validated,
      couleur_feuille |-> couleur_validated,
      lemmes_bruts |->
          SelectSeq([ i \in DOMAIN data |-> data[i][2] ],
                    LAMBDA v : v # None),
      lemmes_valides |-> << plante, link >> \o satellites,
      lemmes_corriges |-> lemmes_corriges,
      confidence_score |-> StructuredConfidence(satellites, data) ]

\* the validation of the values read for an identified plant
StructuredValidated(data, plante, est_malade, type_probleme, nom_raw, symptome, etat, couleur) ==
    StructuredRecord(data, plante, est_malade, type_probleme,
        nom_raw, ValidateName(nom_raw, plante),
        symptome, ValidateOptional(symptome, SatelliteTerms("symptomes")),
        etat, EtatFound(est_malade, etat),
        couleur, CouleurFound(est_malade, couleur))

\* the values read from the parsed lines, with their defaults
StructuredValues(data, plante, est_malade) ==
    IF plante = None THEN << >>
    ELSE << StructuredValidated(data, plante, est_malade,
                DictGet(data, "TYPE_PROBLEME", None),
                DictGet(data, "NOM_PROBLEME", None),
                DictGet(data, "SYMPTOME", None),
                DictGet(data, "ETAT_FEUILLE",
                        IF est_malade THEN "malade" ELSE "saine"),
                DictGet(data, "COULEUR_FEUILLE",
                        IF est_malade THEN "vert_jaunatre" ELSE "vert_fonce")) >>

StructuredResult(data) ==
    StructuredValues(data, StructuredPlant(DictGet(data, "PLANTE", None)),
                     DictGet(data, "EST_MALADE", None) = "oui")

_parse_structured_response(response) ==
    StructuredResult(ParseData(Split(strip(response), "\n"), << >>))

(***************************************************************************)
(* EnhancedLLMExtractor._extract_raw_lemmas, _normalize_lemma and          *)
(* _parse_lemma_response.                                                  *)
(***************************************************************************)
Digits == "0123456789"

AccentedChars ==
    { "à", "â", "ä", "é", "è", "ê", "ë", "î", "ï", "ô", "ö", "ù", "û", "ü", "ç" }

\* the characters the pattern [^\w\s_-] keeps
IsLemmaChar(c) ==
    \/ \E i \in 1..26 : c \in { Char(LowerCase, i), Char(UpperCase, i) }
    \/ \E i \in 1..10 : c = Char(Digits, i)
    \/ c \in AccentedChars
    \/ c \in { "_", "-" }
    \/ IsSpace(c)

RECURSIVE KeepLemmaChars(_)
KeepLemmaChars(s) ==
    IF s = "" THEN ""
    ELSE (IF IsLemmaChar(Char(s, 1)) THEN Char(s, 1) ELSE "")
         \o KeepLemmaChars(Rest(s))

\* re.sub(r'_+', '_', s)
RECURSIVE CollapseUnderscores(_)
CollapseUnderscores(s) ==
    IF s = "" THEN ""
    ELSE IF Char(s, 1) = "_" /\ Len(s) > 1 /\ Char(s, 2) = "_"
         THEN CollapseUnderscores(Rest(s))
         ELSE Char(s, 1) \o CollapseUnderscores(Rest(s))

\* s.strip('_')
RECURSIVE StripUnderscores(_)
StripUnderscores(s) ==
    IF s # "" /\ Char(s, 1) = "_" THEN StripUnderscores(Rest(s))
    ELSE IF s # "" /\ Char(s, Len(s)) = "_"
         THEN StripUnderscores(SubSeq(s, 1, Len(s) - 1))
         ELSE s

_normalize_lemma(lemma) ==
    StripUnderscores(CollapseUnderscores(
        ReplaceChar(ReplaceChar(unidecode(lower(KeepLemmaChars(lemma))),
                                " ", "_"), "-", "_")))

LineKeywords == { "exemple", "règle", "note", "**", "--" }

\* the loop that gathers the lines of the response into lemmas_text
RECURSIVE GatherLines(_)
GatherLines(lines) ==
    IF lines = << >> THEN ""
    ELSE LET line == strip(Head(lines)) IN
         IF line # "" /\ Contains(line, ",")
         THEN line \o "," \o GatherLines(Tail(lines))
         ELSE IF line # "" /\ \A keyword \in LineKeywords :
                                 ~Contains(lower(line), keyword)
              THEN line \o "," \o GatherLines(Tail(lines))
              ELSE GatherLines(Tail(lines))

\* the order-keeping removal of duplicates
RECURSIVE Deduplicate(_, _)
Deduplicate(items, seen) ==
    IF items = << >> THEN << >>
    ELSE IF Head(items) \in seen THEN Deduplicate(Tail(items), seen)
         ELSE << Head(items) >>
              \o Deduplicate(Tail(items), seen \cup { Head(items) })

\* the normalized lemmas of a response longer than one character, before
\* the removal of duplicates
NormalizedLemmas(raw_response) ==
    IF raw_response = "" THEN << >>
    ELSE LET stripped == strip(raw_response)
             parts == Split(stripped, ":")
             response == IF Contains(stripped, ":")
                         THEN strip(parts[Len(parts)]) ELSE stripped
             gathered == GatherLines(Split(response, "\n"))
             lemmas_text == IF strip(gathered) = "" THEN response ELSE gathered
             raw_lemmas == Split(lemmas_text, ",")
             normalized == [ i \in DOMAIN raw_lemmas |->
                               _normalize_lemma(strip(raw_lemmas[i])) ]
         IN SelectSeq(normalized, LAMBDA l : Len(l) > 1)

_extract_raw_lemmas(raw_response) ==
    Deduplicate(NormalizedLemmas(raw_response), {})

\* one lemma of the loop, from what it was identified as
ClassifiedAs(lemme, st, plant, link_term, validated) ==
    IF plant # None
    THEN [ st EXCEPT !.hub = plant,
                     !.lemmes_valides = Append(@, plant),
                     !.lemmes_corriges = Corrected(@, lemme, plant) ]
    ELSE IF link_term # None
    THEN [ st EXCEPT !.link = link_term,
                     !.lemmes_valides = Append(@, link_term),
                     !.lemmes_corriges = Corrected(@, lemme, link_term) ]
    ELSE IF validated # None
    THEN [ st EXCEPT !.satellites = Append(@, validated),
                     !.lemmes_valides = Append(@, validated),
                     !.lemmes_corriges = Corrected(@, lemme, validated) ]
    ELSE st

\* the body of the loop: a plant while there is no hub, a relation while
\* there is no link, a satellite otherwise
ClassifyLemme(lemme, st) ==
    ClassifiedAs(lemme, st,
        IF st.hub = None THEN identify_plant(lemme) ELSE None,
        IF st.link = None THEN identify_link(lemme) ELSE None,
        classify_satellite(lemme, st.hub)[1])

\* the classification loop: st holds hub, link, satellites, lemmes_valides
\* and lemmes_corriges
RECURSIVE ClassifyLemmes(_, _)
ClassifyLemmes(lemmes, st) ==
    IF lemmes = << >> THEN st
    ELSE ClassifyLemmes(Tail(lemmes), ClassifyLemme(Head(lemmes), st))

\* any(validate_term(sat, terms) for sat in satellites)
AnyValidates(satellites, terms) ==
    \E i \in DOMAIN satellites :
        validate_term(satellites[i], terms, DefaultCutoff) # None

\* any(sat in terms for sat in satellites)
AnyIn(satellites, terms) == \E i \in DOMAIN satellites : satellites[i] \in terms

\* the link chosen from what the satellites hold
LinkFor(has_disease_terms, has_pest_terms, has_healthy_terms, has_symptom_terms, has_sick_colors, has_sick_leaf_states) ==
    IF has_disease_terms \/ (has_symptom_terms /\ ~has_healthy_terms)
    THEN "has_disease"
    ELSE IF has_pest_terms THEN "has_infestation"
    ELSE IF has_healthy_terms /\ ~has_symptom_terms /\ ~has_sick_colors
            /\ ~has_sick_leaf_states
    THEN "has_health_status"
    ELSE IF has_sick_colors \/ has_sick_leaf_states THEN "has_disease"
    ELSE "has_health_status"

\* the link inferred when no lemma is a relation
InferLink(hub, satellites) ==
    LinkFor(AnyValidates(satellites, SatelliteTerms("maladies_" \o hub)),
            AnyValidates(satellites, SatelliteTerms("ravageurs_" \o hub)),
            AnyIn(satellites,
                  { "sain", "saine", "turgescente", "dressee", "vigoureux" }),
            AnyValidates(satellites, SatelliteTerms("symptomes")),
            AnyIn(satellites, Range(SatelliteTerms("couleurs_feuille_malade"))),
            AnyIn(satellites, Range(SatelliteTerms("etats_feuille_malade"))))

\* next((sat for sat in satellites if sat in terms), default)
FirstIn(satellites, terms, default) ==
    LET found == SelectSeq(satellites, LAMBDA sat : sat \in terms) IN
    IF found = << >> THEN default ELSE found[1]

\* lst.insert(1, x)
InsertSecond(lst, x) ==
    IF lst = << >> THEN << x >> ELSE << Head(lst), x >> \o Tail(lst)

\* confidence = len(lemmes_valides) / max(len(lemmes_bruts), 1)
LemmaConfidence(lemmes_valides, lemmes_bruts) ==
    << Len(lemmes_valides), Max(Len(lemmes_bruts), 1) >>

\* the returned dictionary, from the classified lemmas and their link
LemmaRecord(lemmes_bruts, st, link, est_malade, lemmes_valides) ==
    [ plante |-> st.hub,
      est_malade |-> est_malade,
      hub |-> st.hub,
      link |-> link,
      satellites |-> st.satellites,
      type_probleme |->
          IF link = "has_disease" THEN "maladie"
          ELSE IF link = "has_infestation" THEN "ravageur" ELSE None,
      nom_probleme |->
          IF est_malade
          THEN FirstIn(st.satellites,
                       Range(SatelliteTerms("maladies_" \o st.hub))
                           \cup Range(SatelliteTerms("ravageurs_" \o st.hub)),
                       None)
          ELSE None,
      symptomes |->
          SelectSeq(st.satellites,
              LAMBDA sat : sat \in Range(SatelliteTerms("symptomes"))),
      etat_feuille |->
          FirstIn(st.satellites, Range(SatelliteTerms("etats_feuille")),
                  "saine"),
      couleur_feuille |->
          FirstIn(st.satellites, Range(SatelliteTerms("couleurs_feuille")),
                  "vert_clair"),
      lemmes_bruts |-> lemmes_bruts,
      lemmes_valides |-> lemmes_valides,
      lemmes_corriges |-> st.lemmes_corriges,
      confidence_score |-> LemmaConfidence(lemmes_valides, lemmes_bruts) ]

\* the link of the result: the one a lemma gave, or the inferred one, which
\* is inserted second in lemmes_valides
LemmaLinked(lemmes_bruts, st, link) ==
    LemmaRecord(lemmes_bruts, st, link,
        link \in { "has_disease", "has_infestation" },
        IF st.link = None THEN InsertSecond(st.lemmes_valides, link)
        ELSE st.lemmes_valides)

\* the result of the loop: nothing without a hub
LemmaClassified(lemmes_bruts, st) ==
    IF st.hub = None THEN << >>
    ELSE << LemmaLinked(lemmes_bruts, st,
                IF st.link = None THEN InferLink(st.hub, st.satellites)
                ELSE st.link) >>

\* nothing without a lemma, the classification loop otherwise
LemmaResult(lemmes_bruts) ==
    IF lemmes_bruts = << >> THEN << >>
    ELSE LemmaClassified(lemmes_bruts,
             ClassifyLemmes(lemmes_bruts,
                 [ hub |-> None, link |-> None, satellites |-> << >>,
                   lemmes_valides |-> << >>, lemmes_corriges |-> << >> ]))

_parse_lemma_response(response) ==
    LemmaResult(_extract_raw_lemmas(response))

(***************************************************************************)
(* Direct calls of the extractor's parsers and of classify_satellite.      *)
(***************************************************************************)
MaxResponseItems == 2   \* most lines or lemmas of an enumerated response

StructuredLines ==
    { "PLANTE: maïs", "EST_MALADE: oui", "TYPE_PROBLEME: ravageur",
      "NOM_PROBLEME: rouile", "ETAT_FEUILLE: aucun", "Voici l'analyse" }

\* complete answers to the structured prompt
CompleteResponses ==
    { Join(<< "PLANTE: Tomate", "EST_MALADE: non", "TYPE_PROBLEME: aucun",
              "NOM_PROBLEME: aucun", "SYMPTOME: aucun",
              "ETAT_FEUILLE: saine", "COULEUR_FEUILLE: vert foncé" >>, "\n"),
      Join(<< "PLANTE: corn", "EST_MALADE: oui", "TYPE_PROBLEME: maladie",
              "NOM_PROBLEME: rouille", "SYMPTOME: tache",
              "ETAT_FEUILLE: tachetee", "COULEUR_FEUILLE: brun" >>, "\n") }

StructuredResponses ==
    { Join(lines, "\n") : lines \in SeqsUpTo(StructuredLines, MaxResponseItems) }
        \cup CompleteResponses

ResponseLemmas ==
    { "maïs", "Rouille", "has_disease", "necrose", "xyz", "Feuille-Jaune!" }

LemmaResponses ==
    { Join(items, ", ") : items \in SeqsUpTo(ResponseLemmas, MaxResponseItems) }
        \cup { "Lemmes: corn, corn, vert_fonce\nNote: fin" }

\* exact members of the categories, and a term of no category
SatelliteLemmes ==
    { "sain", "saine", "striure", "fusariose", "puceron", "necrose",
      "fletrissement", "jeune", "chlorotique", "necrotique", "vert_fonce",
      "jaune", "brun", "simple", "lisse", "parallele", "xyz" }

PlantTypes == { None, "corn", "onion", "tomato" }

ExtractorCalls ==
    [ op : { "_parse_structured_response" }, response : StructuredResponses ]
        \cup [ op : { "_parse_lemma_response" }, response : LemmaResponses ]
        \cup [ op : { "classify_satellite" }, lemme : SatelliteLemmes,
               plant_type : PlantTypes ]

ParseStructuredResponse ==
    /\ pc = "extractor"
    /\ ret = << >>
    /\ call.op = "_parse_structured_response"
    /\ ret' = [ op |-> call.op,
                value |-> _parse_structured_response(call.response) ]
    /\ UNCHANGED << algorithm, onto_relations, lemmas, idx, category,
                    sub_type, sim_reply, hubs_list, satellites_list, plante_hub,
                    probleme_hub, relation_lemma, links_list,
                    final_satellites, schema, errors, pc, fbm_in, fbm_out,
                    call, app_vars >>

ParseLemmaResponse ==
    /\ pc = "extractor"
    /\ ret = << >>
    /\ call.op = "_parse_lemma_response"
    /\ ret' = [ op |-> call.op,
                value |-> _parse_lemma_response(call.response) ]
    /\ UNCHANGED << algorithm, onto_relations, lemmas, idx, category,
                    sub_type, sim_reply, hubs_list, satellites_list, plante_hub,
                    probleme_hub, relation_lemma, links_list,
                    final_satellites, schema, errors, pc, fbm_in, fbm_out,
                    call, app_vars >>

ClassifySatellite ==
    /\ pc = "extractor"
    /\ ret = << >>
    /\ call.op = "classify_satellite"
    /\ ret' = [ op |-> call.op,
                value |-> classify_satellite(call.lemme, call.plant_type) ]
    /\ UNCHANGED << algorithm, onto_relations, lemmas, idx, category,
                    sub_type, sim_reply, hubs_list, satellites_list, plante_hub,
                    probleme_hub, relation_lemma, links_list,
                    final_satellites, schema, errors, pc, fbm_in, fbm_out,
                    call, app_vars >>

InitExtractor ==
    /\ lemmas = << >>
    /\ algorithm = "hybrid"
    /\ onto_relations = {}
    /\ InitLocals
    /\ pc = "extractor"
    /\ fbm_in = FbmIdle
    /\ fbm_out = << >>
    /\ call \in ExtractorCalls
    /\ ret = << >>
    /\ InitApp

NextExtractor ==
    \/ ParseStructuredResponse
    \/ ParseLemmaResponse
    \/ ClassifySatellite

SpecExtractor == InitExtractor /\ [][NextExtractor]_vars

ParserReturned ==
    /\ ret # << >>
    /\ ret.op \in { "_parse_structured_response", "_parse_lemma_response" }
    /\ ret.value # << >>

\* C21: the confidence_score of every StructuredPlantAnalysis that
\* _parse_structured_response or _parse_lemma_response returns lies in
\* [0,1], whatever the number of key:value lines or lemmas of the response
\* and whether or not the link was inferred.
C21_ConfidenceInUnitInterval ==
    ParserReturned =>
        /\ ret.value[1].confidence_score[1] >= 0
        /\ ret.value[1].confidence_score[1] <= ret.value[1].confidence_score[2]

\* the complete answers and the lemma lists with a relation stay in [0,1]
C21_CompleteResponsesBounded ==
    (ParserReturned /\ (call.response \in CompleteResponses
                          \/ Contains(call.response, "has_disease"))) =>
        ret.value[1].confidence_score[1] <= ret.value[1].confidence_score[2]

\* the categories that hold the term, by their place in SATELLITES
CategoriesOf(term) ==
    { k \in DOMAIN SATELLITES : term \in Range(SATELLITES[k].terms) }

\* C29: for a term that is an exact member of at least one SATELLITES
\* category, classify_satellite returns the term unchanged, paired with the
\* first category in the fixed order that contains it, whatever the
\* plant_type argument.
C29_ExactMemberUnchanged ==
    (ret # << >> /\ ret.op = "classify_satellite"
       /\ CategoriesOf(call.lemme) # {}) =>
        LET first == CHOOSE k \in CategoriesOf(call.lemme) :
                         \A j \in CategoriesOf(call.lemme) : k <= j
        IN ret.value = << call.lemme, SATELLITES[first].category >>

(***************************************************************************)
(* The semantic strategy when embedding requests fail.                     *)
(***************************************************************************)
SemanticPairReturned ==
    /\ ret # << >>
    /\ ret.op = "calculate_similarity"
    /\ call.sc.algorithm = "semantic"
    /\ call.lemma # "" /\ ret.term # ""
    /\ _normalize_cached(call.lemma) # _normalize_cached(ret.term)

\* C24: under the semantic strategy, for two non-empty strings with
\* different normal forms, calculate_similarity returns 0 when the request
\* fails for exactly one of them and the other has a non-zero vector, and
\* 0.5 when the request fails for both.
C24_DegenerateScores ==
    SemanticPairReturned =>
        /\ Cardinality({ call.lemma, ret.term } \cap call.sc.failing) = 1
              => ret.value = 0
        /\ { call.lemma, ret.term } \subseteq call.sc.failing
              => ret.value = 50

\* what the code gives: 0.5 in both cases when the vectors have one length
C24_HalfInBothCases ==
    (SemanticPairReturned /\ call.sc.model_dim = FailedDim
       /\ { call.lemma, ret.term } \cap call.sc.failing # {}) =>
        ret.value = 50

(***************************************************************************)
(* app.py: analyze_image, process_multiple_images and export_schema on     *)
(* the globals last_schema and batch_schemas.  What the vision model and   *)
(* the matcher give for an image is the environment's choice: an image     *)
(* yields lemmas ("ok"), yields none ("no_lemmas"), or the extraction or a *)
(* later step raises.  last_schema is << >> for None; the status messages  *)
(* are written without their leading pictograph.                           *)
(***************************************************************************)
MaxImages == 2   \* most files of one upload

AnalysisOk == "**Analyse terminée avec succès**"
NoImageGiven == "Aucune image fournie"
NoLemmaExtracted == "Aucun lemme extrait"
AnalysisError == "Erreur lors de l'analyse"
NoFileUploaded == "Aucun fichier uploadé"
NoValidImage == "Aucune image valide uploadée"
BatchDone == "**Traitement terminé**"
BatchError == "Erreur lors du traitement"
NothingToExport == "Aucun schéma à exporter. Analysez d'abord une image."
ExportOk(export_format) == "Export " \o export_format \o " réussi"
InvalidFormat == "Format d'export invalide"
ExportError == "Erreur lors de l'export"

ImageOutcomes == { "ok", "no_lemmas", "extraction_raises", "later_raises" }

\* extract_lemmas(image) for an image that yields lemmas
ExtractedLemmas == << "corn", "rouille" >>

\* classify_lemmas(lemmas, source) for these lemmas
ClassifiedHubs(source) ==
    << Hub("corn", "plante", source, OntologyUri("corn"), 100),
       Hub("rouille", "maladie", source, OntologyUri("rouille"), 100) >>

ClassifiedLinks(source) ==
    << Link(HubKey("corn", "plante"), HubKey("rouille", "maladie"),
            "has_disease", source, 100) >>

\* slip: an image without lemmas stores an empty schema
analyze_image_empty_schema(image, outcome, previous) ==
    IF image = None
    THEN [ status |-> NoImageGiven, last_schema |-> previous ]
    ELSE IF outcome \in { "extraction_raises", "later_raises" }
    THEN [ status |-> AnalysisError, last_schema |-> previous ]
    ELSE IF outcome = "no_lemmas"
    THEN [ status |-> NoLemmaExtracted,
           last_schema |->
               << generate_schema(<< >>, << >>, << >>, image_source, << >>) >> ]
    ELSE [ status |-> AnalysisOk,
           last_schema |->
               << generate_schema(ClassifiedHubs(image_source),
                                  ClassifiedLinks(image_source), << >>,
                                  image_source, ExtractedLemmas) >> ]

\* analyze_image: the status it returns and the value of last_schema
analyze_image(image, outcome, previous) ==
    IF image = None
    THEN [ status |-> NoImageGiven, last_schema |-> previous ]
    ELSE IF outcome = "extraction_raises"
    THEN [ status |-> AnalysisError, last_schema |-> previous ]
    ELSE IF outcome = "no_lemmas"
    THEN [ status |-> NoLemmaExtracted, last_schema |-> previous ]
    ELSE IF outcome = "later_raises"
    THEN [ status |-> AnalysisError, last_schema |-> previous ]
    ELSE [ status |-> AnalysisOk,
           last_schema |->
               << generate_schema(ClassifiedHubs(image_source),
                                  ClassifiedLinks(image_source), << >>,
                                  image_source, ExtractedLemmas) >> ]

AnalyzeImage ==
    /\ pc = "app"
    /\ \E image \in { None, "leaf.jpg" }, outcome \in ImageOutcomes :
          LET result == analyze_image(image, outcome, last_schema) IN
          /\ call' = [ op |-> "analyze_image", image |-> image,
                       outcome |-> outcome ]
          /\ ret' = [ op |-> "analyze_image", status |-> result.status ]
          /\ last_schema' = result.last_schema
    /\ UNCHANGED << algorithm, onto_relations, lemmas, idx, category,
                    sub_type, sim_reply, hubs_list, satellites_list, plante_hub,
                    probleme_hub, relation_lemma, links_list,
                    final_satellites, schema, errors, pc, fbm_in, fbm_out,
                    batch_schemas, _embedding_cache, remote_calls, attempt >>

\* an entry None of the upload
NoFile == [ name |-> None, outcome |-> None ]

\* an uploaded file: the base name of its path and what its analysis gives
\* (in the loop the two exceptions reach the same handler)
UploadedFiles ==
    [ name : { "leaf.jpg", "ear.jpg" },
      outcome : ImageOutcomes \ { "extraction_raises" } ]
        \cup { NoFile }

\* the loop of process_multiple_images over the files that are not None
RECURSIVE ProcessImages(_, _)
ProcessImages(image_files, acc) ==
    IF image_files = << >> THEN acc
    ELSE LET file == Head(image_files)
             failed == [ acc EXCEPT
                           !.failed_images = @ + 1,
                           !.image_lemmas = DictSet(@, file.name, << >>) ]
         IN
         IF file.outcome = "ok"
         THEN ProcessImages(Tail(image_files),
                  [ acc EXCEPT
                      !.batch_schemas =
                          DictSet(@, file.name,
                              generate_schema(ClassifiedHubs(file.name),
                                              ClassifiedLinks(file.name),
                                              << >>, file.name,
                                              ExtractedLemmas)),
                      !.successful_images = @ + 1,
                      !.image_lemmas = DictSet(@, file.name, ExtractedLemmas) ])
         ELSE ProcessImages(Tail(image_files), failed)

process_multiple_images(uploaded_files, setup_raises, previous) ==
    LET image_files == SelectSeq(uploaded_files, LAMBDA f : f # NoFile)
        idle == [ batch_schemas |-> previous, successful_images |-> 0,
                  failed_images |-> 0, image_lemmas |-> << >> ]
    IN
    IF uploaded_files = << >>
    THEN [ status |-> NoFileUploaded ] @@ idle
    ELSE IF image_files = << >>
    THEN [ status |-> NoValidImage ] @@ idle
    ELSE IF setup_raises
    THEN [ status |-> BatchError ] @@ idle
    ELSE [ status |-> BatchDone ]
         @@ ProcessImages(image_files, [ idle EXCEPT !.batch_schemas = << >> ])

ProcessMultipleImages ==
    /\ pc = "app"
    /\ \E uploaded_files \in SeqsUpTo(UploadedFiles, MaxImages),
          setup_raises \in BOOLEAN :
          LET result == process_multiple_images(uploaded_files, setup_raises,
                                                batch_schemas)
          IN
          \* a failing set-up is tried on the uploads of one file
          /\ setup_raises => Len(uploaded_files) = 1
          /\ call' = [ op |-> "process_multiple_images",
                       uploaded_files |-> uploaded_files,
                       setup_raises |-> setup_raises ]
          /\ ret' = [ op |-> "process_multiple_images",
                      status |-> result.status,
                      successful_images |-> result.successful_images,
                      failed_images |-> result.failed_images,
                      image_lemmas |-> result.image_lemmas ]
          /\ batch_schemas' = result.batch_schemas
    /\ UNCHANGED << algorithm, onto_relations, lemmas, idx, category,
                    sub_type, sim_reply, hubs_list, satellites_list, plante_hub,
                    probleme_hub, relation_lemma, links_list,
                    final_satellites, schema, errors, pc, fbm_in, fbm_out,
                    last_schema, _embedding_cache, remote_calls, attempt >>

ExportFormats == { "JSON", "RDF/Turtle", "SQL", "CSV" }

export_schema(export_format, export_raises, current) ==
    IF current = << >> THEN NothingToExport
    ELSE IF export_format \notin { "JSON", "RDF/Turtle", "SQL" }
    THEN InvalidFormat
    ELSE IF export_raises THEN ExportError
    ELSE ExportOk(export_format)

ExportLastSchema ==
    /\ pc = "app"
    /\ \E export_format \in ExportFormats, export_raises \in BOOLEAN :
          /\ call' = [ op |-> "export_schema", export_format |-> export_format,
                       export_raises |-> export_raises ]
          /\ ret' = [ op |-> "export_schema",
                      status |-> export_schema(export_format, export_raises,
                                               last_schema) ]
    /\ UNCHANGED << algorithm, onto_relations, lemmas, idx, category,
                    sub_type, sim_reply, hubs_list, satellites_list, plante_hub,
                    probleme_hub, relation_lemma, links_list,
                    final_satellites, schema, errors, pc, fbm_in, fbm_out,
                    app_vars >>

InitAppCalls ==
    /\ lemmas = << >>
    /\ algorithm = "hybrid"
    /\ onto_relations = {}
    /\ InitLocals
    /\ InitApp
    /\ pc = "app"
    /\ fbm_in = FbmIdle
    /\ fbm_out = << >>
    /\ call = << >>
    /\ ret = << >>

NextApp == AnalyzeImage \/ ProcessMultipleImages \/ ExportLastSchema

SpecApp == InitAppCalls /\ [][NextApp]_vars

\* the files of the upload that are not None
ImageFilesOf(c) == SelectSeq(c.uploaded_files, LAMBDA f : f # NoFile)

\* C22: when no image is given or the extraction returns no lemma,
\* analyze_image returns a failure status and stores no schema: last_schema
\* keeps its value, it only changes in an analysis that ends with the
\* success status, and export_schema succeeds only when it is set; in
\* process_multiple_images every image that is not analysed to the end,
\* an image without lemmas included, is counted as failed, and every entry
\* of batch_schemas was stored for an image that yielded lemmas.
C22_FailureStoresNothing ==
    [][ /\ (call'.op = "analyze_image"
              /\ (call'.image = None \/ call'.outcome = "no_lemmas")) =>
            /\ ret'.status \in { NoImageGiven, NoLemmaExtracted }
            /\ last_schema' = last_schema
            /\ batch_schemas' = batch_schemas
        /\ last_schema' # last_schema =>
            /\ call'.op = "analyze_image"
            /\ ret'.status = AnalysisOk
        /\ (call'.op = "export_schema"
              /\ ret'.status = ExportOk(call'.export_format)) =>
            last_schema' # << >>
        /\ (call'.op = "process_multiple_images" /\ ret'.status = BatchDone) =>
            LET files == ImageFilesOf(call')
                good == { i \in DOMAIN files : files[i].outcome = "ok" }
            IN
            /\ ret'.failed_images = Len(files) - Cardinality(good)
            /\ ret'.successful_images = Cardinality(good)
            /\ { batch_schemas'[k][1] : k \in DOMAIN batch_schemas' }
                   = { files[i].name : i \in good }
            /\ \A k \in DOMAIN batch_schemas' :
                   batch_schemas'[k][2].metadata.original_lemmas # << >>
      ]_vars

\* an image without lemmas after a successful analysis: the schema stays
C22_Witness ==
    /\ ret # << >>
    /\ ret.op = "analyze_image"
    /\ call.image # None
    /\ call.outcome = "no_lemmas"
    /\ ret.status = NoLemmaExtracted
    /\ last_schema # << >>
    /\ batch_schemas # << >>

(***************************************************************************)
(* The embedding cache of one SimilarityCalculator: _semantic_similarity   *)
(* through _get_embedding with its cache, and clear_cache.  The cache is   *)
(* the sequence of its << text, vector >> pairs; remote_calls lists the    *)
(* requests sent to the endpoint since the cache was last cleared, each    *)
(* with its outcome.  The calculator's model has the dimension of the      *)
(* failure vector.                                                         *)
(***************************************************************************)
MaxRemoteCalls == 3   \* most requests to the endpoint between two clears

CachedCalculator(failing) ==
    [ algorithm |-> "semantic", use_gpu |-> FALSE, failing |-> failing,
      model_dim |-> FailedDim ]

\* slip: the failure vector is put in the cache too
GetEmbeddingCached_caches_failures(cache, sc, text) ==
    IF DictHas(cache, text)
    THEN [ vector |-> DictGet(cache, text, None), cache |-> cache,
           requests |-> << >> ]
    ELSE [ vector |-> _get_embedding(sc, text),
           cache |-> DictSet(cache, text, _get_embedding(sc, text)),
           requests |-> << [ text |-> text, ok |-> text \notin sc.failing ] >> ]

\* _get_embedding with its cache: the vector, the cache afterwards and the
\* request sent to the endpoint, if any
GetEmbeddingCached(cache, sc, text) ==
    IF DictHas(cache, text)
    THEN [ vector |-> DictGet(cache, text, None), cache |-> cache,
           requests |-> << >> ]
    ELSE IF text \in sc.failing
    THEN [ vector |-> _get_embedding(sc, text), cache |-> cache,
           requests |-> << [ text |-> text, ok |-> FALSE ] >> ]
    ELSE [ vector |-> _get_embedding(sc, text),
           cache |-> DictSet(cache, text, _get_embedding(sc, text)),
           requests |-> << [ text |-> text, ok |-> TRUE ] >> ]

\* _semantic_similarity on the cache: the score, the two vectors, the cache
\* afterwards and the requests sent
SemanticSimilarityCached(cache, sc, s1, s2) ==
    IF s1 = "" \/ s2 = ""
    THEN [ value |-> 0, embeddings |-> << >>, cache |-> cache,
           requests |-> << >> ]
    ELSE LET emb1 == GetEmbeddingCached(cache, sc, s1)
             emb2 == GetEmbeddingCached(emb1.cache, sc, s2)
             cos_sim == _cosine_similarity(emb1.vector, emb2.vector)
         IN [ value |-> IF cos_sim = ValueError THEN ValueError
                        ELSE (cos_sim + 100) \div 2,
              embeddings |-> << emb1.vector, emb2.vector >>,
              cache |-> emb2.cache,
              requests |-> emb1.requests \o emb2.requests ]

SemanticSimilarity ==
    /\ pc = "cache"
    /\ \E s1 \in SimStrings, s2 \in SimStrings,
          failing \in SUBSET (SimStrings \ { "" }) :
          LET result == SemanticSimilarityCached(_embedding_cache,
                            CachedCalculator(failing), s1, s2)
          IN
          /\ Len(remote_calls) + Len(result.requests) <= MaxRemoteCalls
          /\ call' = [ op |-> "_semantic_similarity", s1 |-> s1, s2 |-> s2,
                       failing |-> failing ]
          /\ ret' = [ op |-> "_semantic_similarity", value |-> result.value,
                      embeddings |-> result.embeddings,
                      requests |-> result.requests ]
          /\ _embedding_cache' = result.cache
          /\ remote_calls' = remote_calls \o result.requests
    /\ UNCHANGED << algorithm, onto_relations, lemmas, idx, category,
                    sub_type, sim_reply, hubs_list, satellites_list, plante_hub,
                    probleme_hub, relation_lemma, links_list,
                    final_satellites, schema, errors, pc, fbm_in, fbm_out,
                    last_schema, batch_schemas, attempt >>

ClearCache ==
    /\ pc = "cache"
    /\ call' = [ op |-> "clear_cache" ]
    /\ ret' = [ op |-> "clear_cache" ]
    /\ _embedding_cache' = << >>
    /\ remote_calls' = << >>
    /\ UNCHANGED << algorithm, onto_relations, lemmas, idx, category,
                    sub_type, sim_reply, hubs_list, satellites_list, plante_hub,
                    probleme_hub, relation_lemma, links_list,
                    final_satellites, schema, errors, pc, fbm_in, fbm_out,
                    last_schema, batch_schemas, attempt >>

InitCache ==
    /\ lemmas = << >>
    /\ algorithm = "semantic"
    /\ onto_relations = {}
    /\ InitLocals
    /\ InitApp
    /\ pc = "cache"
    /\ fbm_in = FbmIdle
    /\ fbm_out = << >>
    /\ call = << >>
    /\ ret = << >>

NextCache == SemanticSimilarity \/ ClearCache

SpecCache == InitCache /\ [][NextCache]_vars

\* the texts the endpoint was asked for since the last clear_cache
RequestedTexts(calls) == [ i \in DOMAIN calls |-> calls[i].text ]

\* the strings a computation hands to _get_embedding
AskedStrings(c) ==
    IF c.op = "_semantic_similarity" /\ c.s1 # "" /\ c.s2 # ""
    THEN { c.s1, c.s2 } ELSE {}

\* C23: between two clear_cache calls the endpoint is called at most once
\* per distinct input string, and every later request for the same string
\* is answered from the cache, with the same vector and without a remote
\* call.
C23_OneRemoteCallPerString == Distinct(RequestedTexts(remote_calls))

\* C23 amended: between two clear_cache calls at most one request per
\* string succeeds; the cache holds exactly the strings whose request
\* succeeded; a computation on a cached string sends no request for it and
\* uses the cached vector.  A failed request is not cached: the string is
\* requested again by the next computation that needs it.
C23_OneSuccessfulCallPerString ==
    [][ /\ Distinct(SelectSeq(remote_calls', LAMBDA r : r.ok))
        /\ { _embedding_cache'[k][1] : k \in DOMAIN _embedding_cache' }
               = { remote_calls'[i].text :
                     i \in { j \in DOMAIN remote_calls' : remote_calls'[j].ok } }
        /\ \A k \in DOMAIN _embedding_cache :
              LET text == _embedding_cache[k][1] IN
              (call'.op = "_semantic_similarity" /\ text \in AskedStrings(call')) =>
                  /\ \A i \in DOMAIN ret'.requests : ret'.requests[i].text # text
                  /\ _embedding_cache[k][2] \in Range(ret'.embeddings)
                  /\ DictGet(_embedding_cache', text, None) = _embedding_cache[k][2]
        /\ \A text \in AskedStrings(call') :
              (~DictHas(_embedding_cache, text) /\ call'.op = "_semantic_similarity") =>
                  \E i \in DOMAIN ret'.requests : ret'.requests[i].text = text
      ]_vars

\* 'corn' was fetched, 'mais' failed twice: a later computation asks for
\* 'mais' only
C23_Witness ==
    /\ ret # << >>
    /\ ret.op = "_semantic_similarity"
    /\ call.s1 = "corn" /\ call.s2 = "mais"
    /\ Len(remote_calls) = 3
    /\ remote_calls[1] = [ text |-> "corn", ok |-> TRUE ]
    /\ remote_calls[2] = [ text |-> "mais", ok |-> FALSE ]
    /\ remote_calls[3] = [ text |-> "mais", ok |-> FALSE ]
    /\ Len(ret.requests) = 1

(***************************************************************************)
(* LLMExtractor.extract_lemmas: the retry loop around the vision model.    *)
(* call.replies[k] is what the k-th call of the model gives: a response    *)
(* text, or an exception with its message.  attempt counts the calls made. *)
(***************************************************************************)
MaxRetries == 3   \* greatest max_retries

\* _parse_llava_response: the same steps as _extract_raw_lemmas
_parse_llava_response(response) == Deduplicate(NormalizedLemmas(response), {})

MemoryMessage ==
    "model requires more system memory (5.9 GiB) than is available (3.1 GiB)"

ModelReplies ==
    { [ raises |-> FALSE, text |-> "Lemmes extraits : Maïs, feuille verte, maïs" ],
      [ raises |-> FALSE, text |-> "" ],
      [ raises |-> FALSE, text |-> "Note: **" ],
      [ raises |-> TRUE, text |-> MemoryMessage ],
      [ raises |-> TRUE, text |-> "connection refused" ] }

\* the test of the exception's message for insufficient memory
IsMemoryError(error_msg) ==
    /\ Contains(lower(error_msg), "system memory")
    /\ Contains(lower(error_msg), "available")

RECURSIVE SeqsOfLen(_, _)
SeqsOfLen(S, n) ==
    IF n = 0 THEN { << >> }
    ELSE { Append(q, x) : q \in SeqsOfLen(S, n - 1), x \in S }

\* the messages of the exceptions extract_lemmas raises itself
ImageNotFound == "FileNotFoundError: Image introuvable"

ImageUnreadable == "RuntimeError: Erreur lors de la lecture de l'image"

InsufficientMemory == "RuntimeError: Mémoire insuffisante"

ReturnedLemmas(lemmas_found) == [ raised |-> None, value |-> lemmas_found ]

RaisedError(error) == [ raised |-> error, value |-> << >> ]

\* the checks before the loop: the image exists and can be read
OpenImage ==
    /\ pc = "extract_lemmas"
    /\ IF ~call.image_exists
       THEN ret' = RaisedError(ImageNotFound) /\ pc' = "extracted"
       ELSE IF ~call.image_readable
       THEN ret' = RaisedError(ImageUnreadable) /\ pc' = "extracted"
       ELSE IF call.max_retries = 0
       THEN ret' = ReturnedLemmas(<< >>) /\ pc' = "extracted"
       ELSE ret' = ret /\ pc' = "generate"
    /\ UNCHANGED << algorithm, onto_relations, lemmas, idx, category,
                    sub_type, sim_reply, hubs_list, satellites_list, plante_hub,
                    probleme_hub, relation_lemma, links_list,
                    final_satellites, schema, errors, fbm_in, fbm_out,
                    call, app_vars >>

\* slip: an insufficient-memory error is retried like any other error
AttemptResult_retries_memory_error(reply, number, max_retries) ==
    IF reply.raises
    THEN IF number = max_retries
         THEN [ done |-> TRUE, result |-> RaisedError(reply.text) ]
         ELSE [ done |-> FALSE, result |-> << >> ]
    ELSE IF _parse_llava_response(reply.text) # << >>
         THEN [ done |-> TRUE,
                result |-> ReturnedLemmas(_parse_llava_response(reply.text)) ]
    ELSE IF number = max_retries
         THEN [ done |-> TRUE, result |-> ReturnedLemmas(<< >>) ]
    ELSE [ done |-> FALSE, result |-> << >> ]

\* one pass of the loop, the call of the model being the number-th
AttemptResult(reply, number, max_retries) ==
    IF reply.raises
    THEN IF IsMemoryError(reply.text)
         THEN [ done |-> TRUE, result |-> RaisedError(InsufficientMemory) ]
         ELSE IF number = max_retries
         THEN [ done |-> TRUE, result |-> RaisedError(reply.text) ]
         ELSE [ done |-> FALSE, result |-> << >> ]
    ELSE IF _parse_llava_response(reply.text) # << >>
         THEN [ done |-> TRUE,
                result |-> ReturnedLemmas(_parse_llava_response(reply.text)) ]
    ELSE IF number = max_retries
         THEN [ done |-> TRUE, result |-> ReturnedLemmas(<< >>) ]
    ELSE [ done |-> FALSE, result |-> << >> ]

Attempt ==
    /\ pc = "generate"
    /\ attempt < call.max_retries
    /\ LET outcome == AttemptResult(call.replies[attempt + 1], attempt + 1,
                                    call.max_retries)
       IN /\ attempt' = attempt + 1
          /\ ret' = outcome.result
          /\ pc' = IF outcome.done THEN "extracted" ELSE "generate"
    /\ UNCHANGED << algorithm, onto_relations, lemmas, idx, category,
                    sub_type, sim_reply, hubs_list, satellites_list, plante_hub,
                    probleme_hub, relation_lemma, links_list,
                    final_satellites, schema, errors, fbm_in, fbm_out,
                    call, last_schema, batch_schemas, _embedding_cache,
                    remote_calls >>

InitExtractLemmas ==
    /\ lemmas = << >>
    /\ algorithm = "hybrid"
    /\ onto_relations = {}
    /\ InitLocals
    /\ InitApp
    /\ pc = "extract_lemmas"
    /\ fbm_in = FbmIdle
    /\ fbm_out = << >>
    /\ \E max_retries \in 0..MaxRetries :
          call \in [ op : { "extract_lemmas" }, image_exists : BOOLEAN,
                     image_readable : BOOLEAN, max_retries : { max_retries },
                     replies : SeqsOfLen(ModelReplies, max_retries) ]
    /\ ret = << >>

NextExtractLemmas == OpenImage \/ Attempt

\* the image check is left for the loop or for the end of the call
LeaveImageCheck ==
    pc = "extract_lemmas" /\ pc' \in { "generate", "extracted" }

\* one more call of the model is made
NextModelCall == pc = "generate" /\ attempt' = attempt + 1

\* the loop is sequential code: a call that has not ended takes its next
\* step, which leaves the image check or makes one more call of the model
SpecExtractLemmas ==
    InitExtractLemmas /\ [][NextExtractLemmas]_vars
        /\ WF_pc(LeaveImageCheck) /\ WF_attempt(NextModelCall)

\* the call has ended, by a return or by an exception
ExtractEnded == pc = "extracted"

\* the image was opened, so that the loop was entered
ImageOpened == call.image_exists /\ call.image_readable

\* the reply to the k-th call of the model did not end the loop of the claim:
\* an exception, or a response without lemmas
LeadsToNextAttempt(reply) ==
    reply.raises \/ _parse_llava_response(reply.text) = << >>

\* what the claim expects of an ended call that made n calls of the model
ClaimedOutcome(n) ==
    LET last == call.replies[n] IN
    /\ \A k \in 1..(n - 1) : LeadsToNextAttempt(call.replies[k])
    /\ IF ~last.raises /\ _parse_llava_response(last.text) # << >>
       THEN ret = ReturnedLemmas(_parse_llava_response(last.text))
       ELSE /\ n = call.max_retries
            /\ ret = IF last.raises THEN RaisedError(last.text)
                     ELSE ReturnedLemmas(<< >>)

\* a returned list has no duplicates and keeps the first-seen order of the
\* lemmas of the response it was parsed from
ReturnedListDeduplicated ==
    (ExtractEnded /\ ImageOpened /\ attempt > 0
        /\ ret.raised = None /\ ret.value # << >>)
    => LET found == NormalizedLemmas(call.replies[attempt].text) IN
       /\ Distinct(ret.value)
       /\ IsFirstOccurrences(ret.value, found, found)

\* at most max_retries calls were made, and fewer while the loop runs, so
\* that the loop makes its next call
CallsRemainInLoop ==
    /\ attempt <= call.max_retries
    /\ pc = "generate" => attempt < call.max_retries

\* C25 as stated: extract_lemmas ends after at most max_retries calls of the
\* vision model; it returns the first non-empty parsed list without a further
\* call; an empty parse or an exception on an attempt that is not the last
\* leads to the next attempt; it returns the empty list if the last attempt
\* parses to nothing and propagates the exception if the last attempt raises;
\* the returned list has no duplicates and keeps the first-seen order.
C25_EveryExceptionRetried ==
    /\ []CallsRemainInLoop
    /\ []((ExtractEnded /\ ImageOpened /\ call.max_retries > 0)
             => ClaimedOutcome(attempt))
    /\ []ReturnedListDeduplicated
    /\ <>ExtractEnded

\* the reply is an exception that reports insufficient memory
MemoryErrorReply(reply) == reply.raises /\ IsMemoryError(reply.text)

\* C25, amended: extract_lemmas ends after at most max_retries calls of the
\* vision model, and after none if the image is missing or cannot be read,
\* which raises.  An exception whose message reports insufficient system
\* memory ends the call at once, on any attempt, with a RuntimeError of its
\* own.  Otherwise the first non-empty parsed list is returned without a
\* further call, an empty parse or another exception on an attempt that is
\* not the last leads to the next attempt, the empty list is returned if the
\* last attempt parses to nothing, and the exception is propagated if the
\* last attempt raises.  The returned list has no duplicates and keeps the
\* first-seen order.
C25_MemoryErrorEndsAtOnce ==
    /\ []CallsRemainInLoop
    /\ []((ExtractEnded /\ ~ImageOpened)
             => /\ attempt = 0
                /\ ret = IF call.image_exists THEN RaisedError(ImageUnreadable)
                         ELSE RaisedError(ImageNotFound))
    /\ []((ExtractEnded /\ ImageOpened /\ call.max_retries = 0)
             => attempt = 0 /\ ret = ReturnedLemmas(<< >>))
    /\ []((ExtractEnded /\ ImageOpened /\ call.max_retries > 0)
             => /\ attempt > 0
                /\ \A k \in 1..(attempt - 1) :
                      ~MemoryErrorReply(call.replies[k])
                /\ IF MemoryErrorReply(call.replies[attempt])
                   THEN ret = RaisedError(InsufficientMemory)
                   ELSE ClaimedOutcome(attempt))
    /\ []ReturnedListDeduplicated
    /\ <>ExtractEnded

\* reached: after a retry, an insufficient-memory error on an attempt that is
\* not the last ended the call
C25_Witness ==
    /\ ExtractEnded
    /\ ImageOpened
    /\ attempt > 1
    /\ attempt < call.max_retries
    /\ MemoryErrorReply(call.replies[attempt])
    /\ ret = RaisedError(InsufficientMemory)

\* reached: a list with a repeated lemma was returned on the second attempt
C25_DeduplicatedWitness ==
    /\ ExtractEnded
    /\ ImageOpened
    /\ attempt = 2
    /\ ret.raised = None
    /\ ret.value # << >>
    /\ Len(NormalizedLemmas(call.replies[attempt].text)) > Len(ret.value)

(***************************************************************************)
(* Referential integrity of the result of classify_lemmas.                 *)
(***************************************************************************)
\* the keys of the Hubs classify_lemmas returns
ReturnedHubKeys == { hubs_list[i].hub_key : i \in DOMAIN hubs_list }

\* the diagnostics of _check_referential_integrity among the errors
ReferentialDiagnostics ==
    { n \in DOMAIN errors :
        errors[n].check \in { "link_source_invalid", "link_target_invalid",
                              "satellite_hub_invalid" } }

\* C26: every result of classify_lemmas is referentially intact: both keys
\* of each returned Link and the hub_key of each returned Satellite are keys
\* of returned Hubs, so validate_schema reports no referential-integrity
\* warning on the schema generated from it; the result has at most one Link,
\* and one only if the Hub list holds a plant Hub and a problem Hub.
C26_ResultReferentiallyIntact ==
    /\ Classified =>
          /\ \A i \in DOMAIN links_list :
                /\ links_list[i].hub_source_key \in ReturnedHubKeys
                /\ links_list[i].hub_target_key \in ReturnedHubKeys
          /\ \A i \in DOMAIN final_satellites :
                final_satellites[i].hub_key \in ReturnedHubKeys
          /\ Len(links_list) <= 1
          /\ links_list # << >> => PlantHubs # {} /\ ProblemHubs # {}
    /\ pc = "validated" => ReferentialDiagnostics = {}

\* reached: a validated result with a Link, a Satellite of the plant Hub and
\* a Satellite of the problem Hub
C26_Witness ==
    /\ pc = "validated"
    /\ Len(links_list) = 1
    /\ \E i, j \in DOMAIN final_satellites :
          /\ final_satellites[i].hub_key = links_list[1].hub_source_key
          /\ final_satellites[j].hub_key = links_list[1].hub_target_key

\* reached: the only Hub was made by the rescue path and owns a Satellite
C26_RescuedWitness ==
    /\ pc = "validated"
    /\ Len(hubs_list) = 1
    /\ hubs_list[1].confidence_score < 100
    /\ final_satellites # << >>

\* reached: attribute lemmas without any Hub give no Satellite
C26_OrphanWitness ==
    /\ pc = "validated"
    /\ satellites_list # << >>
    /\ hubs_list = << >>
    /\ final_satellites = << >>

(***************************************************************************)
(* classify_lemmas and the order of its input.  What the result is         *)
(* compared with is built from the set of the lemmas and the number of     *)
(* positions of each lemma only, which no permutation of the list changes. *)
(***************************************************************************)
\* the list holds exact vocabulary terms only, with at most one plant lemma,
\* one problem lemma and one relation lemma
C27_Input ==
    /\ \A i \in DOMAIN lemmas :
          lemmas[i] \in hub_vocabulary \cup RELATIONS \cup satellite_vocabulary
    /\ Cardinality(Positions(PLANTES)) <= 1
    /\ Cardinality(Positions(ProblemTerms)) <= 1
    /\ Cardinality(Positions(RELATIONS)) <= 1

\* the result, without the order of its lists
HubPairs ==
    { << hubs_list[i].business_key, hubs_list[i].entity_type >> :
        i \in DOMAIN hubs_list }

LinkTriples ==
    { << links_list[i].hub_source_key, links_list[i].relation_type,
         links_list[i].hub_target_key >> : i \in DOMAIN links_list }

SatelliteTriple(sat) ==
    << sat.attribute_name, sat.attribute_value, sat.hub_key >>

SatelliteCopies(triple) ==
    Cardinality({ i \in DOMAIN final_satellites :
                    SatelliteTriple(final_satellites[i]) = triple })

\* the lemmas of the list by role, as sets
PlantLemmas == Range(lemmas) \cap PLANTES

ProblemLemmas == Range(lemmas) \cap ProblemTerms

RelationLemmas == Range(lemmas) \cap RELATIONS

AttributeLemmas == { l \in Range(lemmas) : IsAttributeTerm(l) }

ProblemType(l) == IF l \in MALADIES THEN "maladie" ELSE "ravageur"

UnorderedHubPairs ==
    { << l, "plante" >> : l \in PlantLemmas }
        \cup { << l, ProblemType(l) >> : l \in ProblemLemmas }

UnorderedLinkTriples ==
    { << HubKey(p, "plante"),
         IF RelationLemmas # {} THEN CHOOSE r \in RelationLemmas : TRUE
         ELSE IF q \in MALADIES THEN "has_disease" ELSE "has_infestation",
         HubKey(q, ProblemType(q)) >> : p \in PlantLemmas, q \in ProblemLemmas }

\* the key of the Hub that owns the Satellites of an attribute lemma: none
\* when the list names no Hub
UnorderedParentKeys(l) ==
    LET plant_keys == { HubKey(p, "plante") : p \in PlantLemmas }
        problem_keys == { HubKey(q, ProblemType(q)) : q \in ProblemLemmas }
    IN IF l \in SYMPTOMES /\ problem_keys # {} THEN problem_keys
       ELSE IF plant_keys # {} THEN plant_keys
       ELSE problem_keys

UnorderedSatelliteTriples ==
    UNION { { << _classify_lemma(l)[2], l, k >> :
                k \in UnorderedParentKeys(l) } : l \in AttributeLemmas }

\* C27: for a list of exact vocabulary terms with at most one plant lemma,
\* one problem lemma and one relation lemma, the set of Hubs (business_key,
\* entity_type), the Link (source, relation_type, target) or its absence and
\* the multiset of Satellites (attribute_name, attribute_value, hub_key)
\* that classify_lemmas returns are the same for every permutation of the
\* list: they are determined by the lemmas and their numbers of occurrences.
C27_PermutationInvariant ==
    (Classified /\ C27_Input) =>
        /\ HubPairs = UnorderedHubPairs
        /\ LinkTriples = UnorderedLinkTriples
        /\ Len(links_list) = Cardinality(UnorderedLinkTriples)
        /\ { SatelliteTriple(final_satellites[i]) :
               i \in DOMAIN final_satellites } = UnorderedSatelliteTriples
        /\ \A triple \in UnorderedSatelliteTriples :
              SatelliteCopies(triple) = Cardinality(Positions({ triple[2] }))

\* reached: a list that names the symptom first, then the problem, the
\* relation and the plant last, with its Link and its Satellite
C27_Witness ==
    /\ Classified
    /\ C27_Input
    /\ Len(lemmas) = 4
    /\ lemmas[1] \in SYMPTOMES \ ProblemTerms
    /\ lemmas[2] \in ProblemTerms
    /\ lemmas[3] \in RELATIONS
    /\ lemmas[4] \in PLANTES
    /\ Len(links_list) = 1
    /\ Len(final_satellites) = 1

\* reached: the same attribute lemma twice, after the only Hub
C27_RepeatedWitness ==
    /\ Classified
    /\ C27_Input
    /\ \E l \in AttributeLemmas : Cardinality(Positions({ l })) = 2
    /\ Len(final_satellites) = 2
    /\ PlantLemmas = {}
    /\ ProblemLemmas # {}

(***************************************************************************)
(* The rescue path and the iteration order of the vocabulary sets.         *)
(***************************************************************************)
\* what the rescue of the current lemma gives when list(vocabulary) runs in
\* the given order, the similarity reply being the one received
RescueUnder(reversed) ==
    _classify_unknown_lemma(lemmas[idx + 1], hubs_list, satellites_list,
                            sim_reply.row, HubLists[reversed],
                            SatLists[reversed])

\* the outcome the claim names: the Hubs by business key, entity type and
\* confidence, and the Satellite candidates with their attribute type
RescueOutcome(result) ==
    << [ i \in DOMAIN result[1] |->
           << result[1][i].business_key, result[1][i].entity_type,
              result[1][i].confidence_score >> ],
       result[2] >>

\* C28: for a fixed similarity function and fixed thresholds, the outcome of
\* the rescue of an unrecognized lemma (Hub or Satellite, the Hub's
\* entity_type and confidence, the Satellite's attribute type) is the same
\* for every iteration order of the vocabulary set, ties between terms of
\* different categories included.
C28_OrderIndependentRescue ==
    pc = "rescue" =>
        RescueOutcome(RescueUnder(TRUE)) = RescueOutcome(RescueUnder(FALSE))

\* without a tie for the best score between terms of different categories,
\* the order of the list does not change the outcome
HubCategory(t) ==
    IF t \in PLANTES THEN "plante"
    ELSE IF t \in MALADIES THEN "maladie" ELSE "ravageur"

TopRescueTerms(terms, threshold) ==
    LET score(t) == calculate_similarity(
                        _normalize_cached(lower(lemmas[idx + 1])), t,
                        sim_reply.row)
    IN { t \in terms : /\ score(t) > 0
                       /\ score(t) >= threshold
                       /\ \A u \in terms : score(u) <= score(t) }

CrossCategoryTie ==
    \/ \E t, u \in TopRescueTerms(hub_vocabulary, theta_c) :
          HubCategory(t) # HubCategory(u)
    \/ /\ TopRescueTerms(hub_vocabulary, theta_c) = {}
       /\ \E t, u \in TopRescueTerms(satellite_vocabulary, theta_a) :
             satellite_type_map(t) # satellite_type_map(u)

C28_OrderMattersOnlyAtTies ==
    (pc = "rescue" /\ ~CrossCategoryTie) =>
        RescueOutcome(RescueUnder(TRUE)) = RescueOutcome(RescueUnder(FALSE))

(***************************************************************************)
(* merge_schemas and referential integrity.                                *)
(***************************************************************************)
\* every Link endpoint and every Satellite hub_key of the schema is the key
\* of a Hub of the schema
ReferentiallyIntact(sch) ==
    /\ \A i \in DOMAIN sch.links :
          /\ sch.links[i].hub_source_key \in HubKeysOf(sch)
          /\ sch.links[i].hub_target_key \in HubKeysOf(sch)
    /\ \A i \in DOMAIN sch.satellites :
          sch.satellites[i].hub_key \in HubKeysOf(sch)

\* C30: if every input schema is referentially intact, so is the schema
\* merge_schemas returns, for any number and order of input schemas, the same
\* schema given twice included; merging the empty list gives a schema with
\* no Hubs, Links or Satellites.
C30_MergeKeepsIntegrity ==
    ret # << >> =>
        /\ (\A k \in DOMAIN call : ReferentiallyIntact(call[k]))
              => ReferentiallyIntact(ret[1])
        /\ call = << >> =>
              /\ ret[1].hubs = << >>
              /\ ret[1].links = << >>
              /\ ret[1].satellites = << >>

\* reached: two different intact schemas, the second with a Hub, a Link and a
\* Satellite the first does not have
C30_Witness ==
    /\ ret # << >>
    /\ Len(call) = 2
    /\ ReferentiallyIntact(call[1])
    /\ ReferentiallyIntact(call[2])
    /\ Len(call[1].hubs) = 1
    /\ Len(call[2].hubs) = 2
    /\ call[1].satellites # << >>
    /\ call[2].links # << >>
    /\ call[2].satellites # << >>
    /\ Len(ret[1].hubs) = 2

\* reached: the same intact schema, with a Link and a Satellite, given twice
C30_TwiceWitness ==
    /\ ret # << >>
    /\ Len(call) = 2
    /\ call[1] = call[2]
    /\ ReferentiallyIntact(call[1])
    /\ call[1].links # << >>
    /\ call[1].satellites # << >>

\* reached: the empty list was merged
C30_EmptyWitness == ret # << >> /\ call = << >>

====
